---- MODULE Spec2Model ----
(***************************************************************************)
(* A model of the ownership and lifetime protocol of the fluster crate:    *)
(* the engine lifecycle (Engine::run, impl Drop for InnerEngine), the      *)
(* user-data aggregate and its boxed auxiliary states, the callbacks the   *)
(* native engine dispatches against them, and the single-use response      *)
(* handles of the platform-message and asynchronous request protocols;     *)
(* further the conversions between the crate's values and the native       *)
(* structs (backing stores, enums, bitfields, status codes), the backing   *)
(* stores and damage buffers the renderer callbacks hand to the engine,    *)
(* the shared AOT data, the tasks of the custom task runners and the       *)
(* buffers of post_dart_object; the renderer configuration and the         *)
(* dispatch of its callbacks, the engine threads the callbacks run on, the *)
(* (pointer, length) arrays and struct_size prefixes of the native         *)
(* structs, and the callbacks posted to all native threads.                *)
(*                                                                         *)
(* The native engine is the environment: every native entry point answers  *)
(* with a status code drawn from the codes util.rs knows, and it invokes   *)
(* the callbacks this layer registered.                                    *)
(***************************************************************************)
EXTENDS Integers, Sequences, FiniteSets, TLC

\* ---------------------------------------------------------------- bounds
MaxIncoming == 2      \* platform messages the engine delivers to the handler
MaxOutgoing == 2      \* send_platform_message calls
MaxReqs     == 2      \* add_view/remove_view/send_key_event/set_next_frame_callback calls
MaxPayload  == 2      \* sample payloads per kind of backing store
MaxStores   == 2      \* backing stores the engine asks the compositor for
MaxFbos     == 2      \* framebuffer identities the engine uses
MaxBuffers  == 3      \* populate_existing_damage calls
MaxEngines  == 2      \* engines started with the same AOT data
MaxRefs     == 2      \* Arc<AOTData> clones the embedder holds at a time
MaxTasks    == 2      \* tasks the engine posts
MaxPosts    == 2      \* post_dart_object calls
MaxAllThreads == 1    \* post_callback_on_all_native_threads calls
MaxLen      == 3      \* elements of an array the engine passes to a callback

\* ------------------------------------------------------------- constants
NULL         == 0     \* std::ptr::null_mut()
EngineHandle == 1     \* the (non-null) handle the native Run call writes

\* ------------------------------------------------------------ result codes
EngineResult == {"Success", "InvalidLibraryVersion", "InvalidArguments",
                 "InternalInconsistency"}

\* FlutterEngineResult::to_result: Success is Ok, the three known failures
\* are the Err of the same name, any other code panics.
to_result(code) ==
    IF code \notin EngineResult THEN "Panic"
    ELSE IF code = "Success" THEN "Ok"
    ELSE code

\* util.rs Error: the closed taxonomy; Result::is_err.
Error == {"InvalidLibraryVersion", "InvalidArguments", "InternalInconsistency"}
is_err(result) == result \in Error

\* ------------------------------------------------------------------ state
VARIABLES
    phase,        \* "NotStarted" | "Running" | "RunFailed": outcome of Engine::run
    runResult,    \* what Engine::run returned ("none" before the call)
    inner,        \* InnerEngine { engine, user_data }
    userData,     \* EngineUserData { engine, compositor, custom_task_runners, platform, render }
    boxes,        \* heap: box name -> "none" | "live" | "freed" | "corrupt"
    dropIdx,      \* number of steps of impl Drop for InnerEngine already taken
    shutdown,     \* native Shutdown: "none" | "called" | "returned"
    teardown,     \* log of the teardown events, in order
    lastRead,     \* the state the engine's latest callback dispatch dereferenced
    uaf,          \* states a callback dispatch dereferenced after their reclaim
    nativeCalls,  \* embedder-initiated native calls: [fn, engine, state]
    responses,    \* PlatformMessageResponse wrappers, by native handle
    messages,     \* send_platform_message exchanges
    aborted,      \* a panic crossed an extern "C" frame: the process is gone
    reqs,         \* asynchronous requests (add/remove view, key event, next frame)
    stores,       \* backing stores the compositor handler created, as the engine holds them
    damage,       \* OpenGL existing_damage_map and the damage buffers it points to
    aot,          \* one AOTData object: its Arc references, the engines started with it
    tasks,        \* tasks the engine posted, Task values held, RunTask calls made
    dart,         \* post_dart_object calls and their boxed collect callbacks
    conv,         \* the latest application of a conversion: [op, input, output]
    renderer,     \* the renderer of the engine: user-data variant, native config, dispatches
    threads,      \* the callback each engine-managed thread is executing, if any
    onThreads     \* post_callback_on_all_native_threads calls and their boxed callbacks

lifecycleVars == <<phase, runResult, inner, userData, boxes, dropIdx, shutdown,
                   teardown>>
callbackVars  == <<lastRead, uaf>>
protocolVars  == <<nativeCalls, responses, messages, reqs>>
extVars == <<stores, damage, aot, tasks, dart, conv>>
auxVars == <<renderer, threads, onThreads>>
vars == <<phase, runResult, inner, userData, boxes, dropIdx, shutdown, teardown,
          lastRead, uaf, nativeCalls, responses, messages, aborted, reqs,
          stores, damage, aot, tasks, dart, conv, renderer, threads, onThreads>>

BoxNames == {"aggregate", "handler",
             "compositor", "compositorUserData",
             "customTaskRunners", "customTaskRunnerUserData",
             "platformUserData", "platformDesc",
             "renderUserData", "renderDesc"}

\* ProjectArgs.compositor and ProjectArgs.custom_task_runners are Options; a
\* CustomTaskRunners holds two more Options.
Configs == {c \in [compositor : BOOLEAN, runners : BOOLEAN,
                   platform : BOOLEAN, render : BOOLEAN] :
               (~c.runners) => (~c.platform /\ ~c.render)}

\* The message and request protocols do not depend on which auxiliary states
\* the engine was started with: their specifications start it with all of them.
FullConfig == [compositor |-> TRUE, runners |-> TRUE, platform |-> TRUE, render |-> TRUE]

\* Box::into_raw(Box::new(..)): the box is live until reclaimed.
BoxesAllocated(cfg) ==
    {"aggregate", "handler"}
    \cup (IF cfg.compositor THEN {"compositor", "compositorUserData"} ELSE {})
    \cup (IF cfg.runners THEN {"customTaskRunners", "customTaskRunnerUserData"} ELSE {})
    \cup (IF cfg.platform THEN {"platformUserData", "platformDesc"} ELSE {})
    \cup (IF cfg.render THEN {"renderUserData", "renderDesc"} ELSE {})

\* Box::from_raw + drop of each box of `names`: a live box becomes freed, any
\* other is a double free or a free of something never allocated.
Reclaim(heap, names) ==
    [b \in BoxNames |->
        IF b \in names
        THEN (IF heap[b] = "live" THEN "freed" ELSE "corrupt")
        ELSE heap[b]]

NoResponse == [state |-> "none", engine |-> NULL, sends |-> 0, handedBack |-> 0,
               leakLogs |-> 0, result |-> "none"]
NoMessage  == [state |-> "none", createResult |-> "none", result |-> "none",
               box |-> "none", handle |-> NULL, response |-> NULL,
               invoked |-> 0, reply |-> "none", received |-> "none",
               releaseCalls |-> <<>>]
NoReq      == [state |-> "none", kind |-> "none", view |-> "none", result |-> "none",
               box |-> "none", invoked |-> 0, value |-> "none", character |-> "none"]

NoConv     == [op |-> "none"]
NoStore    == [state |-> "none", raw |-> [type_ |-> "none"], resource |-> "none",
               destroyed |-> 0, presented |-> FALSE, collected |-> FALSE]
NoBuffer   == [state |-> "none", fbo |-> NULL, presented |-> FALSE]
NoAotEngine == [state |-> "none", shutdown_dart_vm_when_done |-> FALSE, dropIdx |-> 0]
NoPost     == [state |-> "none", kind |-> "none", callback |-> "None", box |-> "none",
               collects |-> 0, result |-> "none"]

\* The threads the engine manages (NativeThreadType): the platform thread, the
\* UI thread of the root isolate, the render thread and a background worker.
EngineThreads == {"platform", "ui", "render", "worker"}
Idle == [callback |-> "none", target |-> "none"]
NoAllThreads == [state |-> "none", result |-> "none", box |-> "none",
                 pending |-> {}, invoked |-> {}, invokedAfterFree |-> 0]

NoDispatch == [callback |-> "none", found |-> "none", outcome |-> "none"]
NoRenderer == [backend |-> "none", user_data |-> "none",
               config |-> [type_ |-> "none", callbacks |-> {}],
               dispatch |-> NoDispatch]

Init ==
    /\ phase = "NotStarted"
    /\ runResult = "none"
    /\ inner = [engine |-> NULL, user_data |-> "none"]
    /\ userData = [engine |-> NULL, compositor |-> FALSE, custom_task_runners |-> FALSE,
                   platform |-> FALSE, render |-> FALSE]
    /\ boxes = [b \in BoxNames |-> "none"]
    /\ dropIdx = 0
    /\ shutdown = "none"
    /\ teardown = <<>>
    /\ lastRead = "none"
    /\ uaf = {}
    /\ nativeCalls = {}
    /\ responses = [i \in 1..MaxIncoming |-> NoResponse]
    /\ messages = [m \in 1..MaxOutgoing |-> NoMessage]
    /\ aborted = FALSE
    /\ reqs = [r \in 1..MaxReqs |-> NoReq]
    /\ stores = [s \in 1..MaxStores |-> NoStore]
    /\ damage = [map |-> [f \in 1..MaxFbos |-> NULL],
                 bufs |-> [b \in 1..MaxBuffers |-> NoBuffer]]
    /\ aot = [data |-> "none", embedder |-> 0, leaked |-> 0, collected |-> 0,
              engines |-> [e \in 1..MaxEngines |-> NoAotEngine]]
    /\ tasks = [posted |-> {}, held |-> {}, ran |-> <<>>, results |-> <<>>]
    /\ dart = [p \in 1..MaxPosts |-> NoPost]
    /\ conv = NoConv
    /\ renderer = NoRenderer
    /\ threads = [t \in EngineThreads |-> Idle]
    /\ onThreads = [p \in 1..MaxAllThreads |-> NoAllThreads]

\* impl Drop for InnerEngine followed by the drop of the Box<EngineUserData>,
\* as the sequence of its steps: the native Shutdown call is entered, it
\* returns, then impl Drop for EngineUserData reclaims the compositor boxes,
\* then the custom-task-runner boxes, then the drop glue drops the fields (the
\* handler last) and the aggregate's box is released.
DropStepsAggregateFirst ==
    <<"Compositor", "TaskRunners", "Fields", "ShutdownCall", "ShutdownReturn">>
DropStepsHandlerFirst ==
    <<"ShutdownCall", "ShutdownReturn", "Fields", "Compositor", "TaskRunners">>
DropSteps ==
    <<"ShutdownCall", "ShutdownReturn", "Compositor", "TaskRunners", "Fields">>

\* The lifecycle state of section 4.3, read off the model's state.
LifecycleState ==
    IF phase # "Running" THEN phase
    ELSE IF dropIdx = 0 THEN "Running"
    ELSE IF dropIdx < Len(DropSteps) THEN "ShuttingDown"
    ELSE "Terminated"

\* An `Engine` value exists and is not being dropped: the receiver of every
\* `&mut self` method.
EngineOwned == phase = "Running" /\ dropIdx = 0 /\ ~aborted

\* A native call the embedder initiated, as the engine sees it.
NativeCall(fn, engine) == [fn |-> fn, engine |-> engine, state |-> LifecycleState]

\* ------------------------------------------------------------ Engine::run
\* The boxes are allocated, the native Run call answers `code`; on success the
\* raw pointer is stored in the InnerEngine, on failure it is simply forgotten
\* (Result::map touches only the Ok case).
RunEngine(cfg, code) ==
    /\ phase = "NotStarted"
    /\ ~aborted
    /\ LET result == to_result(code)
       IN /\ userData' = [engine |-> NULL,
                          compositor |-> cfg.compositor,
                          custom_task_runners |-> cfg.runners,
                          platform |-> cfg.platform,
                          render |-> cfg.render]
          /\ boxes' = [b \in BoxNames |->
                         IF b \in BoxesAllocated(cfg) THEN "live" ELSE "none"]
          /\ runResult' = result
          /\ IF result = "Ok"
             THEN /\ phase' = "Running"
                  /\ inner' = [engine |-> EngineHandle, user_data |-> "aggregate"]
             ELSE /\ phase' = "RunFailed"
                  /\ UNCHANGED inner
    /\ UNCHANGED <<dropIdx, shutdown, teardown, lastRead, uaf, nativeCalls,
                   responses, messages, aborted, reqs>>

\* Engine::run where the renderer is of no concern.
Run(cfg, code) ==
    /\ RunEngine(cfg, code)
    /\ UNCHANGED <<extVars, auxVars>>

\* ------------------------------------------------- impl Drop for InnerEngine
DropStepEnabled(step) ==
    /\ phase = "Running"
    /\ ~aborted
    /\ dropIdx < Len(DropSteps)
    /\ DropSteps[dropIdx + 1] = step

\* unsafe { sys::Shutdown(self.engine) }: the call is entered ...
DropShutdownCall ==
    /\ DropStepEnabled("ShutdownCall")
    /\ shutdown' = "called"
    /\ nativeCalls' = nativeCalls \cup {NativeCall("Shutdown", inner.engine)}
    /\ dropIdx' = dropIdx + 1
    /\ UNCHANGED <<phase, runResult, inner, userData, boxes, teardown, lastRead, uaf,
                   responses, messages, aborted, reqs, extVars, auxVars>>

\* ... and returns; from here on the engine issues no callback.
DropShutdownReturn ==
    /\ DropStepEnabled("ShutdownReturn")
    /\ shutdown' = "returned"
    /\ teardown' = Append(teardown, "Shutdown")
    /\ dropIdx' = dropIdx + 1
    /\ UNCHANGED <<phase, runResult, inner, userData, boxes, lastRead, uaf,
                   nativeCalls, responses, messages, aborted, reqs, extVars, auxVars>>

\* impl Drop for EngineUserData, first `if let`: the FlutterCompositor box and
\* the CompositorUserData box.
DropCompositor ==
    /\ DropStepEnabled("Compositor")
    /\ IF userData.compositor
       THEN /\ boxes' = Reclaim(boxes, {"compositor", "compositorUserData"})
            /\ teardown' = Append(teardown, "compositor")
       ELSE UNCHANGED <<boxes, teardown>>
    /\ dropIdx' = dropIdx + 1
    /\ UNCHANGED <<phase, runResult, inner, userData, shutdown, lastRead, uaf,
                   nativeCalls, responses, messages, aborted, reqs, extVars, auxVars>>

\* impl Drop for CustomTaskRunnerUserData: the boxes of the platform and of
\* the render task runner, each if configured.
CustomTaskRunnerUserDataDrop(ud) ==
    (IF ud.platform THEN {"platformUserData", "platformDesc"} ELSE {})
    \cup (IF ud.render THEN {"renderUserData", "renderDesc"} ELSE {})

\* impl Drop for EngineUserData, second `if let`: the FlutterCustomTaskRunners
\* box and the CustomTaskRunnerUserData box, whose drop reclaims the runners.
DropTaskRunners ==
    /\ DropStepEnabled("TaskRunners")
    /\ IF userData.custom_task_runners
       THEN /\ boxes' = Reclaim(boxes, {"customTaskRunners", "customTaskRunnerUserData"}
                                       \cup CustomTaskRunnerUserDataDrop(userData))
            /\ teardown' = Append(teardown, "task_runners")
       ELSE UNCHANGED <<boxes, teardown>>
    /\ dropIdx' = dropIdx + 1
    /\ UNCHANGED <<phase, runResult, inner, userData, shutdown, lastRead, uaf,
                   nativeCalls, responses, messages, aborted, reqs, extVars, auxVars>>

\* The drop glue of EngineUserData: the fields in declaration order, the
\* handler last, then the aggregate's own allocation.
DropFields ==
    /\ DropStepEnabled("Fields")
    /\ boxes' = Reclaim(boxes, {"handler", "aggregate"})
    /\ teardown' = Append(teardown, "handler")
    /\ dropIdx' = dropIdx + 1
    /\ UNCHANGED <<phase, runResult, inner, userData, shutdown, lastRead, uaf,
                   nativeCalls, responses, messages, aborted, reqs, extVars, auxVars>>

\* ------------------------------------------------- callbacks of the engine
\* The engine dispatches callbacks from the moment it runs until its Shutdown
\* call has returned.
EngineMayCallBack == phase = "Running" /\ shutdown # "returned" /\ ~aborted

\* `unsafe { &mut *user_data }`: the dispatch dereferences the boxed state.
Dereference(target) ==
    /\ lastRead' = target
    /\ uaf' = IF boxes[target] = "live" THEN uaf ELSE uaf \cup {target}

\* callbacks::vsync (and log_message, update_semantics, ...): user data is the
\* aggregate, the handler inside it is called.
CallbackVsync ==
    /\ EngineMayCallBack
    /\ Dereference("aggregate")
    /\ UNCHANGED <<lifecycleVars, nativeCalls, responses, messages, aborted, reqs, extVars, auxVars>>

\* compositor callbacks (create_backing_store, collect_backing_store,
\* present_view): user data is the CompositorUserData.
CallbackCompositor ==
    /\ EngineMayCallBack
    /\ userData.compositor
    /\ Dereference("compositorUserData")
    /\ UNCHANGED <<lifecycleVars, nativeCalls, responses, messages, aborted, reqs, extVars, auxVars>>

\* task runner callbacks (post_task, runs_task_on_current_thread): user data
\* is the TaskRunnerUserData of that runner.
CallbackPostTask(runner) ==
    /\ EngineMayCallBack
    /\ userData[runner]
    /\ Dereference(IF runner = "platform" THEN "platformUserData" ELSE "renderUserData")
    /\ UNCHANGED <<lifecycleVars, nativeCalls, responses, messages, aborted, reqs, extVars, auxVars>>

\* callbacks::platform_message: builds a PlatformMessageResponse from the
\* aggregate's engine field and the message's response handle and moves it
\* into the handler, which keeps it, sends it or drops it later.
CallbackPlatformMessage(i) ==
    /\ EngineMayCallBack
    /\ responses[i].state = "none"
    /\ \A j \in 1..(i - 1) : responses[j].state # "none"
    /\ Dereference("aggregate")
    /\ responses' = [responses EXCEPT ![i] =
                        [NoResponse EXCEPT !.state = "held", !.engine = userData.engine]]
    /\ UNCHANGED <<lifecycleVars, nativeCalls, messages, aborted, reqs, extVars, auxVars>>

\* ------------------------------------------------- PlatformMessageResponse
\* PlatformMessageResponse::send: `self` goes into a ManuallyDrop, so its Drop
\* never runs; the handle is handed to SendPlatformMessageResponse.
ResponseAfterSendThenDrop(r, result) ==
    [r EXCEPT !.state = "sent", !.sends = @ + 1, !.handedBack = @ + 1,
              !.result = result, !.leakLogs = @ + 1]
ResponseAfterSend(r, result) ==
    [r EXCEPT !.state = "sent", !.sends = @ + 1, !.handedBack = @ + 1,
              !.result = result]

\* The wrapper is an owned value without lifetime (and Send): whoever holds it
\* may call send whatever has happened to the Engine.
ResponseSend(i, code) ==
    /\ ~aborted
    /\ responses[i].state = "held"
    /\ nativeCalls' = nativeCalls \cup
                        {NativeCall("SendPlatformMessageResponse", responses[i].engine)}
    /\ responses' = [responses EXCEPT ![i] = ResponseAfterSend(@, to_result(code))]
    /\ UNCHANGED <<lifecycleVars, callbackVars, messages, aborted, reqs, extVars, auxVars>>

\* impl Drop for PlatformMessageResponse: logs the leak, calls nothing.
ResponseAfterDropSilent(r) ==
    [r EXCEPT !.state = "dropped"]
ResponseAfterDrop(r) ==
    [r EXCEPT !.state = "dropped", !.leakLogs = @ + 1]

ResponseDrop(i) ==
    /\ ~aborted
    /\ responses[i].state = "held"
    /\ responses' = [responses EXCEPT ![i] = ResponseAfterDrop(@)]
    /\ UNCHANGED <<lifecycleVars, callbackVars, nativeCalls, messages, aborted, reqs, extVars, auxVars>>

\* ------------------------------------------------- plain `&mut self` calls
\* Engine::on_vsync (like schedule_frame, reload_system_fonts, ...): one
\* native call on self.inner.engine.
OnVsync ==
    /\ EngineOwned
    /\ nativeCalls' = nativeCalls \cup {NativeCall("OnVsync", inner.engine)}
    /\ UNCHANGED <<lifecycleVars, callbackVars, responses, messages, aborted, reqs, extVars, auxVars>>

\* ------------------------------------------------- send_platform_message
Replies == {"r456", "empty"}

\* The response handle PlatformMessageCreateResponseHandle writes for the
\* m-th exchange: a fresh non-null handle.
HandleOf(m) == m

\* What PlatformMessageReleaseResponseHandle may answer: a handle the engine
\* created is released ("releasing response handle never fails"); what it
\* answers to a null handle is the native library's business.
NativeReleaseAnswers(handle) ==
    IF handle = NULL THEN {"Success", "InvalidArguments"} ELSE {"Success"}

\* The `response` field of send_platform_message::UserData once the handle
\* has been created: it is initialised to null and never assigned, the
\* created handle lives in the local `response_handle` only.
ResponseField(created) == NULL

\* impl Drop for send_platform_message::UserData: the box goes away and
\* PlatformMessageReleaseResponseHandle is called on self.response ...
UserDataDrop(msg) ==
    [msg EXCEPT !.box = IF @ = "live" THEN "freed" ELSE "corrupt",
                !.releaseCalls = Append(@, msg.response)]

\* ... `.expect("releasing response handle never fails")` on its answer.
ReleasePanics(relCode) == to_result(relCode) # "Ok"

\* Engine::send_platform_message.
SendPlatformMessage(m, createCode, sendCode, relCode) ==
    /\ EngineOwned
    /\ messages[m].state = "none"
    /\ \A j \in 1..(m - 1) : messages[j].state # "none"
    /\ LET boxed   == [NoMessage EXCEPT !.box = "live",
                                        !.createResult = to_result(createCode)]
           created == [boxed EXCEPT !.handle = HandleOf(m),
                                    !.response = ResponseField(HandleOf(m))]
       IN IF is_err(to_result(createCode))
          THEN \* the callback will never be invoked: reclaim the box
               \* (SendPlatformMessage is not reached)
               /\ relCode \in NativeReleaseAnswers(boxed.response)
               /\ sendCode = "Success"
               /\ messages' = [messages EXCEPT ![m] =
                     [UserDataDrop(boxed) EXCEPT
                         !.state = "rejected",
                         !.result = IF ReleasePanics(relCode) THEN "Panic"
                                    ELSE to_result(createCode)]]
          ELSE \* the box stays with the engine (no release is reached)
               /\ relCode = "Success"
               /\ messages' = [messages EXCEPT ![m] =
                     [created EXCEPT
                         !.state = IF is_err(to_result(sendCode))
                                   THEN "sendFailed" ELSE "pending",
                         !.result = to_result(sendCode)]]
    /\ UNCHANGED <<lifecycleVars, callbackVars, nativeCalls, responses, aborted, reqs, extVars, auxVars>>

\* extern "C" fn message_response: the engine delivers the reply `data`. The
\* box is moved out, the callback is taken and called with the data, and the
\* UserData is dropped when the function returns; a panic of that drop
\* crosses the extern "C" frame.
MessageResponse(m, data, relCode) ==
    /\ EngineMayCallBack
    /\ messages[m].state = "pending"
    /\ relCode \in NativeReleaseAnswers(messages[m].response)
    /\ messages' = [messages EXCEPT ![m] =
          [UserDataDrop(@) EXCEPT
              !.state = "replied", !.reply = data,
              !.invoked = @ + 1, !.received = data]]
    /\ aborted' = ReleasePanics(relCode)
    /\ UNCHANGED <<lifecycleVars, callbackVars, nativeCalls, responses, reqs, extVars, auxVars>>

\* ------------------------------------------------- asynchronous requests
RequestKinds == {"add_view", "remove_view", "send_key_event",
                 "set_next_frame_callback"}
ViewKinds == {"add_view", "remove_view"}
ViewIds == {"implicit", "other"}

\* What the native start call may answer: adding or removing the implicit
\* view is rejected with InvalidArguments, anything else is up to the engine.
NativeStartAnswers(kind, view) ==
    IF kind \in ViewKinds /\ view = "implicit"
    THEN {"InvalidArguments"}
    ELSE EngineResult

\* `if result.is_err() { drop(Box::from_raw(user_data)) }`: the box of the
\* continuation after the start call.
BoxAfterStartLeaks(result) == "live"
BoxAfterStart(result) == IF is_err(result) THEN "freed" ELSE "live"

\* The CString of a key event's character after send_key_event: allocated by
\* the conversion (CString::into_raw), reclaimed by CString::from_raw + drop
\* after the native call whatever it answered.
CharacterAfterSendLeaksOnError(hasCharacter, result) ==
    IF ~hasCharacter THEN "none"
    ELSE IF is_err(result) THEN "live" ELSE "freed"
CharacterAfterSend(hasCharacter, result) ==
    IF hasCharacter THEN "freed" ELSE "none"

\* Engine::add_view, remove_view, send_key_event, set_next_frame_callback,
\* post_render_thread_task: box the continuation, make the native call,
\* reclaim the box on failure. send_key_event also reclaims the CString of
\* the event's character.
StartRequest(r, kind, view, hasCharacter, code) ==
    /\ EngineOwned
    /\ reqs[r].state = "none"
    /\ \A j \in 1..(r - 1) : reqs[j].state # "none"
    /\ (kind \in ViewKinds) = (view # "none")
    /\ hasCharacter => kind = "send_key_event"
    /\ code \in NativeStartAnswers(kind, view)
    /\ LET result == to_result(code)
       IN reqs' = [reqs EXCEPT ![r] =
             [NoReq EXCEPT !.state = IF is_err(result) THEN "rejected" ELSE "pending",
                           !.kind = kind,
                           !.view = view,
                           !.result = result,
                           !.box = BoxAfterStart(result),
                           !.character = CharacterAfterSend(hasCharacter, result)]]
    /\ UNCHANGED <<lifecycleVars, callbackVars, nativeCalls, responses, messages, aborted, extVars, auxVars>>

\* The continuation as the native callback leaves it: the box is moved out
\* and the FnOnce is called.
ContinuationForgotten(req, value) ==
    [req EXCEPT !.state = "delivered",
                !.box = IF @ = "live" THEN "freed" ELSE "corrupt"]
ContinuationCalled(req, value) ==
    [req EXCEPT !.state = "delivered",
                !.box = IF @ = "live" THEN "freed" ELSE "corrupt",
                !.invoked = @ + 1,
                !.value = value]

\* The continuations that take no argument (FnOnce()).
UnitKinds == {"set_next_frame_callback", "post_render_thread_task"}

\* add_view_callback, remove_view_callback, key_event_callback,
\* next_frame_callback, task_callback: the engine calls back once for an
\* accepted request.
NativeCallback(r, value) ==
    /\ EngineMayCallBack
    /\ reqs[r].state = "pending"
    /\ (reqs[r].kind \in UnitKinds) = (value = "unit")
    /\ reqs' = [reqs EXCEPT ![r] = ContinuationCalled(@, value)]
    /\ UNCHANGED <<lifecycleVars, callbackVars, nativeCalls, responses, messages, aborted, extVars, auxVars>>

\* ====================================================== enums and bitfields
\* Result<T, E>.
OkOf(value) == [ok |-> TRUE, value |-> value]
ErrOf(error) == [ok |-> FALSE, error |-> error]

\* The variants of two enums defined with simple_enum!, in declaration order.
SoftwarePixelFormat ==
    <<"Gray8", "RGB565", "RGBA4444", "RGBA8888", "RGBX8888", "BGRA8888", "Native32">>
SimpleEnums == [EngineResult |-> <<"Success", "InvalidLibraryVersion", "InvalidArguments",
                                   "InternalInconsistency">>,
                SoftwarePixelFormat |-> SoftwarePixelFormat]

\* The native enum is a newtype around an integer (bindgen NewType style):
\* its named values count from zero in declaration order, and any other
\* integer can arrive from the engine.
NativeOf(enum, variant) ==
    (CHOOSE i \in 1..Len(SimpleEnums[enum]) : SimpleEnums[enum][i] = variant) - 1
NativeEnumValues(enum) == (-1)..Len(SimpleEnums[enum])

\* simple_enum!: From<$name> for $c_type matches each variant to the native
\* value of the same name; TryFrom<$c_type> for $name matches each named
\* native value to its variant and answers Err(unknown) otherwise.
enum_into(enum, variant) == NativeOf(enum, variant)
enum_try_from(enum, value) ==
    IF \E v \in DOMAIN SimpleEnums[enum] : NativeOf(enum, SimpleEnums[enum][v]) = value
    THEN OkOf(SimpleEnums[enum][
            CHOOSE v \in DOMAIN SimpleEnums[enum] :
                NativeOf(enum, SimpleEnums[enum][v]) = value])
    ELSE ErrOf(value)

\* A bitfield defined with bitfield! (PointerMouseButtons): a newtype around
\* the native bits with one constant per flag, the i-th flag being bit i - 1.
BitfieldFlags == <<"Primary", "Secondary", "Middle", "Back", "Forward">>
KnownBits == 0..(2 ^ Len(BitfieldFlags) - 1)
NativeBits == 0..(2 ^ (Len(BitfieldFlags) + 1) - 1)

\* bitfield!: From<$name> for $c_type is `value.0`, From<$c_type> for $name
\* is `Self(value)`; there is no TryFrom.
bitfield_into(value) == value.bits
bitfield_from(bits) == [bits |-> bits]

\* ============================================================ backing stores
\* Option<extern "C" fn>: None, or one of the destruction callbacks the
\* encoders of this layer install.
NoCallback == "None"
DestructionCallbacks ==
    {"destroy_opengl_texture_callback", "destroy_opengl_framebuffer_callback",
     "destroy_software_callback", "destroy_metal_texture_callback",
     "destroy_vulkan_callback"}

\* The outcome of a conversion that may panic.
Panicked == [panic |-> TRUE]
Returned(value) == [panic |-> FALSE, value |-> value]


\* The backing stores a handler can build, as [kind, fields]; the k-th sample
\* of a kind gives every field its own value.
BackingStoreKinds ==
    {"OpenGLTexture", "OpenGLFramebuffer", "Software", "Metal", "Vulkan"}
SampleStore(kind, k) ==
    [kind |-> kind,
     fields |->
        CASE kind = "OpenGLTexture" ->
                [target |-> k, name |-> k + 1, format |-> k + 2,
                 width |-> k + 3, height |-> k + 4]
          [] kind = "OpenGLFramebuffer" -> [format |-> k, name |-> k + 1]
          [] kind = "Software" ->
                [allocation |-> k, row_bytes |-> k + 1, height |-> k + 2,
                 pixel_format |-> IF k % 2 = 1 THEN "RGBA8888" ELSE "Gray8"]
          [] kind = "Metal" -> [texture_id |-> k, texture |-> k + 1]
          [] kind = "Vulkan" -> [image_handle |-> k, format |-> k + 1]]
BackingStores == {SampleStore(kind, k) : kind \in BackingStoreKinds, k \in 1..MaxPayload}

\* std::mem::size_of in machine words: every field of the structs below is one
\* word (size_t, i64, a pointer or a function pointer).
size_of(layout) == Cardinality(layout)
FlutterMetalTextureLayout ==
    {"struct_size", "user_data", "destruction_callback", "texture_id", "texture"}
MetalTextureLayout == {"texture_id", "texture"}
size_of_FlutterMetalBackingStore ==
    size_of({"struct_size"}) + size_of(FlutterMetalTextureLayout)
size_of_MetalBackingStore == size_of(MetalTextureLayout)

\* From<OpenGLTexture> for sys::FlutterOpenGLTexture and OpenGLTexture::from_raw.
OpenGLTexture_into(t) ==
    [user_data |-> NULL, destruction_callback |-> "destroy_opengl_texture_callback",
     target |-> t.target, name |-> t.name, format |-> t.format,
     width |-> t.width, height |-> t.height]
OpenGLTexture_from_raw(raw) ==
    IF raw.destruction_callback # "destroy_opengl_texture_callback" THEN Panicked
    ELSE Returned([target |-> raw.target, name |-> raw.name, format |-> raw.format,
                   width |-> raw.width, height |-> raw.height])

\* From<OpenGLFramebuffer> for sys::FlutterOpenGLFramebuffer and
\* OpenGLFramebuffer::from_raw: the native field for the format is `target`.
OpenGLFramebuffer_into(f) ==
    [user_data |-> NULL, destruction_callback |-> "destroy_opengl_framebuffer_callback",
     target |-> f.format, name |-> f.name]
OpenGLFramebuffer_from_raw(raw) ==
    IF raw.destruction_callback # "destroy_opengl_framebuffer_callback" THEN Panicked
    ELSE Returned([format |-> raw.target, name |-> raw.name])

\* From<SoftwareBackingStore> for sys::FlutterSoftwareBackingStore2 and
\* SoftwareBackingStore::from_raw (pixel_format.try_into().unwrap()).
SoftwareBackingStore_into(s) ==
    [user_data |-> NULL, destruction_callback |-> "destroy_software_callback",
     allocation |-> s.allocation, row_bytes |-> s.row_bytes, height |-> s.height,
     pixel_format |-> enum_into("SoftwarePixelFormat", s.pixel_format)]
SoftwareBackingStore_from_raw(raw) ==
    LET pixel_format == enum_try_from("SoftwarePixelFormat", raw.pixel_format)
    IN IF raw.destruction_callback # "destroy_software_callback" THEN Panicked
       ELSE IF ~pixel_format.ok THEN Panicked
       ELSE Returned([allocation |-> raw.allocation, row_bytes |-> raw.row_bytes,
                      height |-> raw.height, pixel_format |-> pixel_format.value])

\* From<MetalTexture> for sys::FlutterMetalTexture and MetalTexture::from_raw.
MetalTexture_into(t) ==
    [struct_size |-> size_of(FlutterMetalTextureLayout),
     user_data |-> t.texture, destruction_callback |-> "destroy_metal_texture_callback",
     texture_id |-> t.texture_id, texture |-> t.texture]
MetalTexture_from_raw(raw) ==
    IF raw.destruction_callback # "destroy_metal_texture_callback" THEN Panicked
    ELSE Returned([texture_id |-> raw.texture_id, texture |-> raw.texture])

\* From<MetalBackingStore> for sys::FlutterMetalBackingStore writes the size of
\* the native struct; MetalBackingStore::from_raw compares struct_size with
\* size_of::<MetalBackingStore>(), the size of the Rust enum.
MetalBackingStore_into(t) ==
    [struct_size |-> size_of_FlutterMetalBackingStore,
     texture |-> MetalTexture_into(t)]
MetalBackingStore_from_raw(raw) ==
    IF raw.struct_size # size_of_MetalBackingStore THEN Panicked
    ELSE MetalTexture_from_raw(raw.texture)

\* From<VulkanBackingStore> for sys::FlutterVulkanBackingStore boxes the
\* FlutterVulkanImage (`image` and `user_data` both point to the box, whose
\* contents are modelled in place); VulkanBackingStore::from_raw copies it out.
VulkanBackingStore_into(v) ==
    [user_data |-> "imageBox", destruction_callback |-> "destroy_vulkan_callback",
     image |-> [image |-> v.image_handle, format |-> v.format]]
VulkanBackingStore_from_raw_Unchecked(raw) ==
    Returned([image_handle |-> raw.image.image, format |-> raw.image.format])
VulkanBackingStore_from_raw(raw) ==
    IF raw.destruction_callback # "destroy_vulkan_callback" THEN Panicked
    ELSE Returned([image_handle |-> raw.image.image, format |-> raw.image.format])

\* From<OpenGLBackingStore> for sys::FlutterOpenGLBackingStore and
\* OpenGLBackingStore::from_raw: a tagged union of texture and framebuffer.
OpenGLBackingStore_into(bs) ==
    IF bs.kind = "OpenGLTexture"
    THEN [type_ |-> "Texture", union |-> OpenGLTexture_into(bs.fields)]
    ELSE [type_ |-> "Framebuffer", union |-> OpenGLFramebuffer_into(bs.fields)]
OpenGLBackingStore_from_raw(raw) ==
    CASE raw.type_ = "Texture" -> OpenGLTexture_from_raw(raw.union)
      [] raw.type_ = "Framebuffer" -> OpenGLFramebuffer_from_raw(raw.union)
      [] OTHER -> Panicked

\* A decoded payload under the kind of backing store it belongs to; a panic
\* of the inner decoder is the panic of the outer one.
As(kind, decoded) ==
    IF decoded.panic THEN Panicked
    ELSE Returned([kind |-> kind, fields |-> decoded.value])

\* From<BackingStore> for sys::FlutterBackingStore: a software store is
\* encoded as Software2.
BackingStore_into(bs) ==
    CASE bs.kind \in {"OpenGLTexture", "OpenGLFramebuffer"} ->
            [type_ |-> "OpenGL", user_data |-> NULL, did_update |-> FALSE,
             union |-> OpenGLBackingStore_into(bs)]
      [] bs.kind = "Software" ->
            [type_ |-> "Software2", user_data |-> NULL, did_update |-> FALSE,
             union |-> SoftwareBackingStore_into(bs.fields)]
      [] bs.kind = "Metal" ->
            [type_ |-> "Metal", user_data |-> NULL, did_update |-> FALSE,
             union |-> MetalBackingStore_into(bs.fields)]
      [] bs.kind = "Vulkan" ->
            [type_ |-> "Vulkan", user_data |-> NULL, did_update |-> FALSE,
             union |-> VulkanBackingStore_into(bs.fields)]

\* BackingStore::from_raw: the deprecated Software type and unknown types panic.
BackingStore_from_raw(raw) ==
    CASE raw.type_ = "OpenGL" ->
            As(IF raw.union.type_ = "Texture" THEN "OpenGLTexture" ELSE "OpenGLFramebuffer",
               OpenGLBackingStore_from_raw(raw.union))
      [] raw.type_ = "Software2" -> As("Software", SoftwareBackingStore_from_raw(raw.union))
      [] raw.type_ = "Metal" -> As("Metal", MetalBackingStore_from_raw(raw.union))
      [] raw.type_ = "Vulkan" -> As("Vulkan", VulkanBackingStore_from_raw(raw.union))
      [] OTHER -> Panicked

\* The struct of a native backing store that carries the destruction callback.
CallbackOf(raw) ==
    CASE raw.type_ = "OpenGL" -> raw.union.union.destruction_callback
      [] raw.type_ = "Metal" -> raw.union.texture.destruction_callback
      [] OTHER -> raw.union.destruction_callback
WithCallback(raw, cb) ==
    CASE raw.type_ = "OpenGL" ->
            [raw EXCEPT !.union.union.destruction_callback = cb]
      [] raw.type_ = "Metal" -> [raw EXCEPT !.union.texture.destruction_callback = cb]
      [] OTHER -> [raw EXCEPT !.union.destruction_callback = cb]

\* The decoder of the struct that carries the callback, applied to it directly.
Payload_from_raw(raw) ==
    CASE raw.type_ = "OpenGL" /\ raw.union.type_ = "Texture" ->
            OpenGLTexture_from_raw(raw.union.union)
      [] raw.type_ = "OpenGL" /\ raw.union.type_ # "Texture" ->
            OpenGLFramebuffer_from_raw(raw.union.union)
      [] raw.type_ = "Software2" -> SoftwareBackingStore_from_raw(raw.union)
      [] raw.type_ = "Metal" -> MetalTexture_from_raw(raw.union.texture)
      [] raw.type_ = "Vulkan" -> VulkanBackingStore_from_raw(raw.union)

\* Native backing stores as the engine may hand them to a decoder: what the
\* encoder produced, with any callback pointer in the callback field.
RawStores ==
    {WithCallback(BackingStore_into(bs), cb) :
        bs \in BackingStores, cb \in DestructionCallbacks \cup {NoCallback}}

\* encode then decode: BackingStore::from_raw(&bs.into()).
RoundTrip(bs) ==
    /\ conv' = [op |-> "round_trip", input |-> bs,
                output |-> BackingStore_from_raw(BackingStore_into(bs))]
    /\ UNCHANGED <<lifecycleVars, callbackVars, protocolVars, aborted,
                   stores, damage, aot, tasks, dart, auxVars>>

\* BackingStore::from_raw on a native store.
Decode(raw) ==
    /\ conv' = [op |-> "from_raw", input |-> raw, output |-> BackingStore_from_raw(raw)]
    /\ UNCHANGED <<lifecycleVars, callbackVars, protocolVars, aborted,
                   stores, damage, aot, tasks, dart, auxVars>>

\* OpenGLTexture::from_raw, OpenGLFramebuffer::from_raw, MetalTexture::from_raw,
\* VulkanBackingStore::from_raw, SoftwareBackingStore::from_raw on the payload.
DecodePayload(raw) ==
    /\ conv' = [op |-> "payload_from_raw", input |-> raw, output |-> Payload_from_raw(raw)]
    /\ UNCHANGED <<lifecycleVars, callbackVars, protocolVars, aborted,
                   stores, damage, aot, tasks, dart, auxVars>>

\* $c_type::from(variant) followed by $name::try_from.
EnumRoundTrip(enum, variant) ==
    /\ conv' = [op |-> "enum_round_trip", input |-> variant,
                output |-> enum_try_from(enum, enum_into(enum, variant))]
    /\ UNCHANGED <<lifecycleVars, callbackVars, protocolVars, aborted,
                   stores, damage, aot, tasks, dart, auxVars>>

\* $name::try_from on a native value.
EnumTryFrom(enum, value) ==
    /\ conv' = [op |-> "enum_try_from", input |-> value,
                known |-> value \in {NativeOf(enum, SimpleEnums[enum][v]) :
                                        v \in DOMAIN SimpleEnums[enum]},
                output |-> enum_try_from(enum, value)]
    /\ UNCHANGED <<lifecycleVars, callbackVars, protocolVars, aborted,
                   stores, damage, aot, tasks, dart, auxVars>>

\* $c_type::from(value) followed by $name::from, for a value made of flags.
BitfieldRoundTrip(bits) ==
    /\ conv' = [op |-> "bitfield_round_trip", input |-> bitfield_from(bits),
                output |-> bitfield_from(bitfield_into(bitfield_from(bits)))]
    /\ UNCHANGED <<lifecycleVars, callbackVars, protocolVars, aborted,
                   stores, damage, aot, tasks, dart, auxVars>>

\* $name::from on native bits.
BitfieldFrom(bits) ==
    /\ conv' = [op |-> "bitfield_from", input |-> bits,
                known |-> bits \in KnownBits,
                output |-> bitfield_from(bits)]
    /\ UNCHANGED <<lifecycleVars, callbackVars, protocolVars, aborted,
                   stores, damage, aot, tasks, dart, auxVars>>

\* SoftwareBackingStore::from_raw on a store of the engine whose pixel_format
\* holds any native value.
DecodePixelFormat(value) ==
    /\ conv' =
         [op |-> "software_from_raw", input |-> value,
          known |-> enum_try_from("SoftwarePixelFormat", value).ok,
          output |-> SoftwareBackingStore_from_raw(
                        [SoftwareBackingStore_into(SampleStore("Software", 1).fields)
                            EXCEPT !.pixel_format = value])]
    /\ UNCHANGED <<lifecycleVars, callbackVars, protocolVars, aborted,
                   stores, damage, aot, tasks, dart, auxVars>>

\* FlutterEngineResult::to_result on a status code of the engine.
NativeCodes == EngineResult \cup {"Unknown"}
ApplyToResult(code) ==
    /\ conv' = [op |-> "to_result", input |-> code, output |-> to_result(code)]
    /\ UNCHANGED <<lifecycleVars, callbackVars, protocolVars, aborted,
                   stores, damage, aot, tasks, dart, auxVars>>

\* ------------------------------------------------- compositor backing stores
\* What encoding leaves on the heap for the destruction callback to reclaim:
\* the Box<FlutterVulkanImage> (Box::into_raw) and the MTLTexture reference
\* (into_ptr forgets the owner); the other encoders allocate nothing.
ResourceOf(bs) == IF bs.kind \in {"Vulkan", "Metal"} THEN "live" ELSE "none"

\* The destruction callback of the store's payload, called on its user_data:
\* destroy_vulkan_callback and destroy_metal_texture_callback reclaim the
\* resource, the OpenGL and software callbacks only trace.
RunDestructionCallback(st) ==
    [st EXCEPT !.destroyed = @ + 1,
               !.resource =
                  IF CallbackOf(st.raw) \in {"destroy_vulkan_callback",
                                             "destroy_metal_texture_callback"}
                  THEN (IF @ = "live" THEN "freed" ELSE "corrupt")
                  ELSE @]

\* return_out_param: std::ptr::write(out, value.into()) moves the encoded
\* struct into the engine's slot; no sys Drop runs.
StoreWrittenThenDropped(bs) ==
    RunDestructionCallback([NoStore EXCEPT !.state = "engine",
                                           !.raw = BackingStore_into(bs),
                                           !.resource = ResourceOf(bs)])
StoreWritten(bs) ==
    [NoStore EXCEPT !.state = "engine", !.raw = BackingStore_into(bs),
                    !.resource = ResourceOf(bs)]

\* callbacks::create_backing_store: the handler answers Some(backing store) or
\* None; Some is encoded into the out-slot and true is returned.
CreateBackingStore(s, some, bs) ==
    /\ EngineMayCallBack
    /\ userData.compositor
    /\ stores[s].state = "none"
    /\ \A j \in 1..(s - 1) : stores[j].state # "none"
    /\ Dereference("compositorUserData")
    /\ stores' = IF some THEN [stores EXCEPT ![s] = StoreWritten(bs)] ELSE stores
    /\ UNCHANGED <<lifecycleVars, protocolVars, aborted, damage, aot, tasks, dart, conv, auxVars>>

\* BackingStore::from_raw(&*backing_store): the decoder reads through a
\* reference and builds a fresh Rust value; the native struct stays with the
\* engine and nothing of it is dropped.
StoreAfterDecodeDropsRaw(st) == RunDestructionCallback(st)
StoreAfterDecode(st) == st

\* callbacks::collect_backing_store: decode, then hand the value to the
\* handler; a panic of the decoder crosses the extern "C" frame.
CollectBackingStore(s) ==
    /\ EngineMayCallBack
    /\ userData.compositor
    /\ stores[s].state = "engine"
    /\ ~stores[s].collected
    /\ Dereference("compositorUserData")
    /\ stores' = [stores EXCEPT ![s] = [StoreAfterDecode(@) EXCEPT !.collected = TRUE]]
    /\ aborted' = BackingStore_from_raw(stores[s].raw).panic
    /\ UNCHANGED <<lifecycleVars, protocolVars, damage, aot, tasks, dart, conv, auxVars>>

\* callbacks::present_view: every layer's backing store is decoded
\* (Layer::from_raw) before the handler sees the layers.
PresentView(layers) ==
    /\ EngineMayCallBack
    /\ userData.compositor
    /\ layers # {}
    /\ \A s \in layers : stores[s].state = "engine" /\ ~stores[s].collected
    /\ Dereference("compositorUserData")
    /\ stores' = [s \in 1..MaxStores |->
                    IF s \in layers
                    THEN [StoreAfterDecode(stores[s]) EXCEPT !.presented = TRUE]
                    ELSE stores[s]]
    /\ aborted' = \E s \in layers : BackingStore_from_raw(stores[s].raw).panic
    /\ UNCHANGED <<lifecycleVars, protocolVars, damage, aot, tasks, dart, conv, auxVars>>

\* The engine is done with the store: it invokes the destruction callback the
\* struct carries, on the struct's user_data, once.
EngineDiscard(s) ==
    /\ EngineMayCallBack
    /\ stores[s].state = "engine"
    /\ stores' = [stores EXCEPT ![s] =
                    [RunDestructionCallback(@) EXCEPT !.state = "discarded"]]
    /\ UNCHANGED <<lifecycleVars, callbackVars, protocolVars, aborted,
                   damage, aot, tasks, dart, conv, auxVars>>


\* ------------------------------------------------- OpenGL damage buffers
\* callbacks::populate_existing_damage: the handler's region becomes a boxed
\* slice (Box::into_raw), the b-th allocation; HashMap::insert stores its
\* pointer under fbo_id, replacing whatever pointer was stored there.
PopulateExistingDamage(f, b) ==
    /\ EngineMayCallBack
    /\ damage.bufs[b].state = "none"
    /\ \A j \in 1..(b - 1) : damage.bufs[j].state # "none"
    /\ Dereference("aggregate")
    /\ damage' = [map |-> [damage.map EXCEPT ![f] = b],
                  bufs |-> [damage.bufs EXCEPT ![b] =
                              [state |-> "live", fbo |-> f, presented |-> FALSE]]]
    /\ UNCHANGED <<lifecycleVars, protocolVars, aborted, stores, aot, tasks, dart, conv, auxVars>>

\* callbacks::present_with_info: existing_damage_map.remove(fbo_id) and, if
\* there was an entry, Box::from_raw + drop of the slice it points to.
PresentWithInfo(f) ==
    /\ EngineMayCallBack
    /\ Dereference("aggregate")
    /\ damage' =
         [map |-> [damage.map EXCEPT ![f] = NULL],
          bufs |-> [b \in 1..MaxBuffers |->
                      LET buf == damage.bufs[b]
                      IN [buf EXCEPT
                            !.state = IF damage.map[f] = b
                                      THEN (IF @ = "live" THEN "freed" ELSE "corrupt")
                                      ELSE @,
                            !.presented = @ \/ (buf.state # "none" /\ buf.fbo = f)]]]
    /\ UNCHANGED <<lifecycleVars, protocolVars, aborted, stores, aot, tasks, dart, conv, auxVars>>

\* ------------------------------------------------------------- AOT data
\* The steps of impl Drop for InnerEngine an engine has taken.
StepDone(eng, step) == \E i \in 1..eng.dropIdx : DropSteps[i] = step

\* EngineUserData.aot_data: the engine's clone of the Arc lives in the
\* aggregate, from Engine::run until the drop glue drops the fields; the
\* aggregate of a failed run is never dropped.
HoldsArcNever(eng) == FALSE
HoldsArc(eng) ==
    \/ eng.state = "RunFailed"
    \/ eng.state = "Running" /\ ~StepDone(eng, "Fields")

\* Arc::strong_count: the embedder's clones, the clones Arc::into_raw leaked,
\* and the clones the engines hold.
StrongCount(a) ==
    a.embedder + a.leaked
    + Cardinality({e \in 1..MaxEngines : HoldsArc(a.engines[e])})

\* A clone of the Arc has been dropped: when it was the last one,
\* impl Drop for AOTData calls CollectAOTData.
AfterArcDrop(a) ==
    IF a.data = "live" /\ StrongCount(a) = 0
    THEN [a EXCEPT !.data = "collected", !.collected = @ + 1]
    ELSE a

\* AOTData::new: CreateAOTData(..).to_result().map(|()| Self { data }).
AotNew(code) ==
    /\ aot.data = "none"
    /\ aot' = IF to_result(code) = "Ok"
              THEN [aot EXCEPT !.data = "live", !.embedder = 1]
              ELSE [aot EXCEPT !.data = "failed"]
    /\ UNCHANGED <<lifecycleVars, callbackVars, protocolVars, aborted,
                   stores, damage, tasks, dart, conv, auxVars>>

\* Arc::clone and the drop of an Arc by the embedder.
EmbedderClone ==
    /\ aot.data = "live"
    /\ aot.embedder \in 1..(MaxRefs - 1)
    /\ aot' = [aot EXCEPT !.embedder = @ + 1]
    /\ UNCHANGED <<lifecycleVars, callbackVars, protocolVars, aborted,
                   stores, damage, tasks, dart, conv, auxVars>>

EmbedderDrop ==
    /\ aot.embedder > 0
    /\ aot' = AfterArcDrop([aot EXCEPT !.embedder = @ - 1])
    /\ UNCHANGED <<lifecycleVars, callbackVars, protocolVars, aborted,
                   stores, damage, tasks, dart, conv, auxVars>>

\* `if project_args.shutdown_dart_vm_when_done { let _ = Arc::into_raw(
\* aot_data.clone()) }`: the clones the run leaks on purpose.
LeakedByRun(flag) == IF flag THEN 1 ELSE 0

\* Engine::run with ProjectArgs.aot_data = Some(clone of the embedder's Arc):
\* the intentional leak, the clone stored in the aggregate, the native Run
\* call; ProjectArgs (and its clone) is dropped when run returns.
AotRun(e, flag, code) ==
    /\ aot.data = "live"
    /\ aot.embedder > 0
    /\ aot.engines[e].state = "none"
    /\ \A j \in 1..(e - 1) : aot.engines[j].state # "none"
    /\ aot' = [aot EXCEPT
                 !.leaked = @ + LeakedByRun(flag),
                 !.engines[e] =
                    [state |-> IF to_result(code) = "Ok" THEN "Running" ELSE "RunFailed",
                     shutdown_dart_vm_when_done |-> flag,
                     dropIdx |-> 0]]
    /\ UNCHANGED <<lifecycleVars, callbackVars, protocolVars, aborted,
                   stores, damage, tasks, dart, conv, auxVars>>

\* One step of the drop of engine e (impl Drop for InnerEngine, then the
\* aggregate): the step that drops the fields drops the engine's Arc clone.
AotEngineDrop(e) ==
    /\ aot.engines[e].state = "Running"
    /\ aot.engines[e].dropIdx < Len(DropSteps)
    /\ LET stepped == [aot EXCEPT !.engines[e].dropIdx = @ + 1]
       IN aot' = IF DropSteps[aot.engines[e].dropIdx + 1] = "Fields"
                 THEN AfterArcDrop(stepped)
                 ELSE stepped
    /\ UNCHANGED <<lifecycleVars, callbackVars, protocolVars, aborted,
                   stores, damage, tasks, dart, conv, auxVars>>

\* ---------------------------------------------------------- task runners
\* The sys::FlutterTask the engine passes to post_task for its t-th task on
\* a runner: the runner's handle and the task's baton.
FlutterTask(runner, t) == [runner |-> runner, task |-> t]

\* `Task { runner: task.runner, task: task.task }` in post_task, and
\* From<Task> for sys::FlutterTask.
Task_from(raw) == [runner |-> raw.runner, task |-> raw.task]
FlutterTask_from(task) == [runner |-> task.runner, task |-> task.task]

\* extern "C" fn post_task: the engine's pair becomes a Task value that is
\* moved into the handler.
PostTask(runner, t) ==
    /\ EngineMayCallBack
    /\ userData[runner]
    /\ \A r \in {"platform", "render"} : FlutterTask(r, t) \notin tasks.posted
    /\ \A j \in 1..(t - 1) :
          \E r \in {"platform", "render"} : FlutterTask(r, j) \in tasks.posted
    /\ Dereference(IF runner = "platform" THEN "platformUserData" ELSE "renderUserData")
    /\ tasks' = [tasks EXCEPT !.posted = @ \cup {FlutterTask(runner, t)},
                              !.held = @ \cup {Task_from(FlutterTask(runner, t))}]
    /\ UNCHANGED <<lifecycleVars, protocolVars, aborted, stores, damage, aot, dart, conv, auxVars>>

\* Task has private fields and is neither Clone nor Copy: run_task takes it
\* by value, so the embedder no longer holds it afterwards.
HeldAfterRunKept(held, task) == held
HeldAfterRun(held, task) == held \ {task}

\* Engine::run_task: sys::RunTask(self.inner.engine, &task.into()).to_result().
RunTask(task, code) ==
    /\ EngineOwned
    /\ task \in tasks.held
    /\ tasks' = [tasks EXCEPT !.held = HeldAfterRun(@, task),
                              !.ran = Append(@, FlutterTask_from(task)),
                              !.results = Append(@, to_result(code))]
    /\ UNCHANGED <<lifecycleVars, callbackVars, protocolVars, aborted,
                   stores, damage, aot, dart, conv, auxVars>>

\* The embedder drops a Task without running it.
DropTask(task) ==
    /\ ~aborted
    /\ task \in tasks.held
    /\ tasks' = [tasks EXCEPT !.held = @ \ {task}]
    /\ UNCHANGED <<lifecycleVars, callbackVars, protocolVars, aborted,
                   stores, damage, aot, dart, conv, auxVars>>

\* ------------------------------------------------------- post_dart_object
\* The FlutterEngineDartBuffer post_dart_object builds: a copied Buffer has
\* no user data and no collect callback; a SharedBuffer boxes the embedder's
\* collect closure (Box::into_raw) and registers buffer_collect on it.
DartBuffer(kind) ==
    IF kind = "SharedBuffer"
    THEN [NoPost EXCEPT !.kind = kind, !.callback = "buffer_collect", !.box = "live"]
    ELSE [NoPost EXCEPT !.kind = kind]

\* Engine::post_dart_object: the buffer is built and the result of the native
\* PostDartObject call is returned as it is; no branch follows the call.
PostDartObject(p, kind, code) ==
    /\ EngineOwned
    /\ dart[p].state = "none"
    /\ \A j \in 1..(p - 1) : dart[j].state # "none"
    /\ dart' = [dart EXCEPT ![p] =
                   [DartBuffer(kind) EXCEPT
                       !.state = IF is_err(to_result(code)) THEN "failed" ELSE "posted",
                       !.result = to_result(code)]]
    /\ UNCHANGED <<lifecycleVars, callbackVars, protocolVars, aborted,
                   stores, damage, aot, tasks, conv, auxVars>>

\* unsafe extern "C" fn buffer_collect: Box::from_raw(user_data) and the call
\* of the FnOnce in it. The VM calls it when it is done with a buffer it has
\* accepted; a buffer whose post failed was never taken over.
BufferCollect(p) ==
    /\ ~aborted
    /\ dart[p].state = "posted"
    /\ dart[p].callback = "buffer_collect"
    /\ dart' = [dart EXCEPT ![p] =
                   [@ EXCEPT !.state = "collected",
                             !.box = IF @ = "live" THEN "freed" ELSE "corrupt",
                             !.collects = @ + 1]]
    /\ UNCHANGED <<lifecycleVars, callbackVars, protocolVars, aborted,
                   stores, damage, aot, tasks, conv, auxVars>>

\* ================================================================== renderer
\* RendererConfig / RendererUserData: the backends.
RendererBackends == {"OpenGL", "Software", "Metal", "Vulkan"}

\* mod callbacks of each backend: the extern "C" functions it defines.
RendererCallbacks ==
    [OpenGL   |-> {"make_current", "clear_current", "present_with_info",
                   "fbo_with_frame_info", "make_resource_current",
                   "surface_transformation", "gl_proc_resolver",
                   "gl_external_texture_frame", "populate_existing_damage"},
     Software |-> {"surface_present"},
     Metal    |-> {"get_next_drawable", "present_drawable", "external_texture_frame"},
     Vulkan   |-> {"get_instance_proc_address", "get_next_image", "present_image"}]

AllRendererCallbacks == UNION {RendererCallbacks[b] : b \in RendererBackends}

\* The variant the `let RendererUserData::X(user_data) = .. else` of a callback
\* matches: the backend whose module defines the callback.
VariantMatched(callback) ==
    CHOOSE b \in RendererBackends : callback \in RendererCallbacks[b]

\* From<XRendererConfig> for (XRendererUserData, sys::FlutterXRendererConfig):
\* the native config of the backend, with the callbacks it installs.
BackendConfig_into(backend) ==
    [type_ |-> backend, callbacks |-> RendererCallbacks[backend]]

\* From<RendererConfig> for (RendererUserData, sys::FlutterRendererConfig).
RendererConfig_into(config) ==
    [user_data |-> config, config |-> BackendConfig_into(config)]

\* A renderer callback: the aggregate's renderer_user_data is matched against
\* the callback's variant; the handler of that variant is called, any other
\* variant is unreachable!().
renderer_callback_Unchecked(callback, variant) ==
    Returned([handler |-> variant, method |-> callback])
renderer_callback(callback, variant) ==
    IF variant = VariantMatched(callback)
    THEN Returned([handler |-> variant, method |-> callback])
    ELSE Panicked

\* Engine::_run with a renderer config of backend `config`: the pair is built,
\* the user data goes into the aggregate, the native config to the Run call.
RunRenderer(config, code) ==
    /\ RunEngine(FullConfig, code)
    /\ LET pair == RendererConfig_into(config)
       IN renderer' = [renderer EXCEPT !.backend = config,
                                       !.user_data = pair.user_data,
                                       !.config = pair.config]
    /\ UNCHANGED <<extVars, threads, onThreads>>

\* The engine invokes a renderer callback of the config it was handed, with
\* the aggregate as user data.
RendererCallback(callback) ==
    /\ EngineMayCallBack
    /\ callback \in renderer.config.callbacks
    /\ Dereference("aggregate")
    /\ LET outcome == renderer_callback(callback, renderer.user_data)
       IN /\ renderer' = [renderer EXCEPT !.dispatch =
                            [callback |-> callback, found |-> renderer.user_data,
                             outcome |-> outcome]]
          /\ aborted' = outcome.panic
    /\ UNCHANGED <<lifecycleVars, protocolVars, extVars, threads, onThreads>>

\* A renderer callback applied to an aggregate holding any variant.
ApplyRendererCallback(callback, variant) ==
    /\ conv' = [op |-> "renderer_callback", callback |-> callback, variant |-> variant,
                output |-> renderer_callback(callback, variant)]
    /\ UNCHANGED <<lifecycleVars, callbackVars, protocolVars, aborted,
                   stores, damage, aot, tasks, dart, auxVars>>

\* =================================================== callbacks on threads
\* mod callbacks of compositor.rs.
CompositorCallbacks == {"create_backing_store", "collect_backing_store", "present_view"}

\* The thread the engine makes each callback on: platform_message,
\* update_semantics and channel_update on the thread of Engine::run, vsync,
\* log_message and root_isolate_created on an internal thread, the renderer and
\* compositor callbacks on the render thread, make_resource_current on a
\* background thread.
ThreadCallbacks ==
    [platform |-> {"platform_message", "update_semantics", "channel_update_callback",
                   "on_pre_engine_restart"},
     ui       |-> {"vsync", "log_message", "root_isolate_create"},
     render   |-> (AllRendererCallbacks \ {"make_resource_current"}) \cup CompositorCallbacks,
     worker   |-> {"make_resource_current"}]

\* `&mut *user_data`: the state a callback takes its exclusive reference to.
UserDataOf(callback) ==
    IF callback \in CompositorCallbacks THEN "compositorUserData" ELSE "aggregate"

\* A thread of the engine enters a callback: the cast and `&mut *user_data`;
\* nothing is locked.
CallbackEnter(t, callback) ==
    /\ EngineMayCallBack
    /\ threads[t] = Idle
    /\ callback \in ThreadCallbacks[t]
    /\ callback \in AllRendererCallbacks => callback \in renderer.config.callbacks
    /\ Dereference(UserDataOf(callback))
    /\ threads' = [threads EXCEPT ![t] =
                      [callback |-> callback, target |-> UserDataOf(callback)]]
    /\ UNCHANGED <<lifecycleVars, protocolVars, aborted, extVars, renderer, onThreads>>

\* The handler returns and the reference ends with the callback.
CallbackReturn(t) ==
    /\ threads[t] # Idle
    /\ threads' = [threads EXCEPT ![t] = Idle]
    /\ UNCHANGED <<lifecycleVars, callbackVars, protocolVars, aborted, extVars,
                   renderer, onThreads>>

\* ======================================================= engine-owned arrays
\* A pointer and a length as the engine passes them: a zero-length array
\* comes with any pointer (null, or one that points at nothing), an array of
\* n > 0 elements with a pointer to them.
ArrayPointers == {"null", "dangling", "valid"}
EngineArrays ==
    {[ptr |-> p, len |-> 0, elems |-> <<>>] : p \in ArrayPointers}
    \cup UNION {{[ptr |-> "valid", len |-> n, elems |-> e] : e \in [1..n -> 1..MaxLen]} :
                 n \in 1..MaxLen}

\* std::slice::from_raw_parts(data, len): `data` must be non-null and aligned
\* even for a zero length. With a null pointer the behaviour is undefined: a
\* build with debug assertions panics on the violated precondition, a build
\* without them yields the slice.
slice_from_raw_parts(a) ==
    IF a.ptr = "null"
    THEN {Panicked, Returned(SubSeq(a.elems, 1, a.len))}
    ELSE {Returned(SubSeq(a.elems, 1, a.len))}

\* util::slice_from_raw_parts_with_invalid_empty(data, len): a zero length
\* is the empty slice whatever the pointer, anything else is from_raw_parts.
slice_from_raw_parts_with_invalid_empty(a) ==
    IF a.len = 0 THEN {Returned(<<>>)} ELSE slice_from_raw_parts(a)

\* The arrays of the present path and the function each is decoded with:
\* callbacks::present_view (layers), PlatformView::from_raw (mutations),
\* Region::from_raw (paint region), Region::from_raw_damage (present damage).
ArraySites == {"layers", "mutations", "paint_region", "damage"}
array_from_raw(site, a) ==
    IF site \in {"layers", "mutations"}
    THEN slice_from_raw_parts_with_invalid_empty(a)
    ELSE slice_from_raw_parts(a)

\* One array of the present path is decoded.
DecodeArray(site, a) ==
    /\ \E outcome \in array_from_raw(site, a) :
          conv' = [op |-> "array", site |-> site, input |-> a, output |-> outcome]
    /\ UNCHANGED <<lifecycleVars, callbackVars, protocolVars, aborted,
                   stores, damage, aot, tasks, dart, auxVars>>

\* ============================================================= struct sizes
\* The fields of the native structs this layer builds with a struct_size, as
\* the struct literals of the source list them (a Rust struct literal names
\* every field).
NativeLayouts ==
    [
     FlutterCompositor |->
         {"struct_size", "user_data", "create_backing_store_callback",
          "collect_backing_store_callback", "avoid_backing_store_cache",
          "present_layers_callback", "present_view_callback"},
     FlutterEngineDartBuffer |->
         {"struct_size", "user_data", "buffer_collect_callback", "buffer",
          "buffer_size"},
     FlutterEngineDisplay |->
         {"struct_size", "display_id", "single_display", "refresh_rate",
          "width", "height", "device_pixel_ratio"},
     FlutterProjectArgs |->
         {"struct_size", "assets_path", "icu_data_path",
          "persistent_cache_path", "is_persistent_cache_read_only",
          "compositor", "custom_task_runners", "aot_data",
          "shutdown_dart_vm_when_done", "dart_old_gen_heap_size",
          "platform_message_callback", "vsync_callback",
          "update_semantics_callback2", "log_message_callback",
          "on_pre_engine_restart_callback", "channel_update_callback",
          "root_isolate_create_callback",
          "compute_platform_resolved_locale_callback",
          "custom_dart_entrypoint", "dart_entrypoint_argc",
          "dart_entrypoint_argv", "command_line_argc", "command_line_argv",
          "log_tag", "main_path__unused__", "packages_path__unused__",
          "update_semantics_node_callback",
          "update_semantics_custom_action_callback",
          "update_semantics_callback", "vm_snapshot_data",
          "vm_snapshot_data_size", "vm_snapshot_instructions",
          "vm_snapshot_instructions_size", "isolate_snapshot_data",
          "isolate_snapshot_data_size", "isolate_snapshot_instructions",
          "isolate_snapshot_instructions_size"},
     FlutterAddViewInfo |->
         {"struct_size", "view_id", "view_metrics", "user_data",
          "add_view_callback"},
     FlutterRemoveViewInfo |->
         {"struct_size", "view_id", "user_data", "remove_view_callback"},
     FlutterPlatformMessage |->
         {"struct_size", "channel", "message", "message_size",
          "response_handle"},
     FlutterWindowMetricsEvent |->
         {"struct_size", "view_id", "width", "height", "pixel_ratio",
          "left", "top", "physical_view_inset_top",
          "physical_view_inset_right", "physical_view_inset_bottom",
          "physical_view_inset_left", "display_id"},
     FlutterPointerEvent |->
         {"struct_size", "phase", "timestamp", "x", "y", "device",
          "signal_kind", "scroll_delta_x", "scroll_delta_y", "device_kind",
          "buttons", "pan_x", "pan_y", "scale", "rotation", "view_id"},
     FlutterKeyEvent |->
         {"struct_size", "timestamp", "type_", "physical", "logical",
          "character", "synthesized", "device_type"},
     FlutterFrameInfo |->
         {"struct_size", "size"},
     FlutterLocale |->
         {"struct_size", "language_code", "country_code", "script_code",
          "variant_code"},
     FlutterMetalBackingStore |->
         {"struct_size", "__bindgen_anon_1"},
     FlutterMetalTexture |->
         FlutterMetalTextureLayout,
     FlutterMetalExternalTexture |->
         {"struct_size", "width", "height", "pixel_format", "num_textures",
          "textures", "yuv_color_space"},
     FlutterMetalRendererConfig |->
         {"struct_size", "device", "present_command_queue",
          "get_next_drawable_callback", "present_drawable_callback",
          "external_texture_frame_callback"},
     FlutterBackingStoreConfig |->
         {"struct_size", "size", "view_id"},
     FlutterBackingStore |->
         {"struct_size", "user_data", "did_update", "type_",
          "__bindgen_anon_1"},
     FlutterDamage |->
         {"struct_size", "num_rects", "damage"},
     FlutterOpenGLRendererConfig |->
         {"struct_size", "present", "fbo_callback",
          "fbo_reset_after_present", "make_current", "clear_current",
          "make_resource_current", "surface_transformation",
          "gl_proc_resolver", "gl_external_texture_frame_callback",
          "fbo_with_frame_info_callback", "present_with_info",
          "populate_existing_damage"},
     FlutterSoftwareBackingStore2 |->
         {"struct_size", "user_data", "destruction_callback", "allocation",
          "row_bytes", "height", "pixel_format"},
     FlutterSoftwareRendererConfig |->
         {"struct_size", "surface_present_callback"},
     FlutterVulkanImage |->
         {"struct_size", "image", "format"},
     FlutterVulkanBackingStore |->
         {"struct_size", "user_data", "destruction_callback", "image"},
     FlutterVulkanRendererConfig |->
         {"struct_size", "version", "instance", "physical_device",
          "device", "queue_family_index", "queue",
          "enabled_instance_extension_count",
          "enabled_instance_extensions", "enabled_device_extension_count",
          "enabled_device_extensions",
          "get_instance_proc_address_callback", "get_next_image_callback",
          "present_image_callback"},
     FlutterTaskRunnerDescription |->
         {"struct_size", "user_data",
          "runs_task_on_current_thread_callback", "post_task_callback",
          "identifier"},
     FlutterCustomTaskRunners |->
         {"struct_size", "platform_task_runner", "render_task_runner",
          "thread_priority_setter"}]

\* std::mem::size_of::<T>(): a word per field; the union field of
\* FlutterMetalBackingStore holds a FlutterMetalTexture, and MetalBackingStore
\* is the crate's own enum.
native_size_of(type) ==
    IF type = "FlutterMetalBackingStore" THEN size_of_FlutterMetalBackingStore
    ELSE IF type = "MetalBackingStore" THEN size_of_MetalBackingStore
    ELSE size_of(NativeLayouts[type])

\* Every struct literal with a struct_size field: the native type it builds
\* and the type whose size_of it writes into the field.
StructSites ==
    {
     [at |-> "compositor.rs:207", native |-> "FlutterCompositor", size_of |-> "FlutterCompositor"],
     [at |-> "dart_object.rs:83", native |-> "FlutterEngineDartBuffer", size_of |-> "FlutterEngineDartBuffer"],
     [at |-> "dart_object.rs:113", native |-> "FlutterEngineDartBuffer", size_of |-> "FlutterEngineDartBuffer"],
     [at |-> "display.rs:39", native |-> "FlutterEngineDisplay", size_of |-> "FlutterEngineDisplay"],
     [at |-> "engine.rs:512", native |-> "FlutterProjectArgs", size_of |-> "FlutterProjectArgs"],
     [at |-> "engine.rs:661", native |-> "FlutterAddViewInfo", size_of |-> "FlutterAddViewInfo"],
     [at |-> "engine.rs:717", native |-> "FlutterRemoveViewInfo", size_of |-> "FlutterAddViewInfo"],
     [at |-> "engine.rs:872", native |-> "FlutterPlatformMessage", size_of |-> "FlutterPlatformMessage"],
     [at |-> "events.rs:33", native |-> "FlutterWindowMetricsEvent", size_of |-> "FlutterWindowMetricsEvent"],
     [at |-> "events.rs:166", native |-> "FlutterPointerEvent", size_of |-> "FlutterPointerEvent"],
     [at |-> "events.rs:274", native |-> "FlutterKeyEvent", size_of |-> "FlutterKeyEvent"],
     [at |-> "graphics.rs:52", native |-> "FlutterFrameInfo", size_of |-> "FlutterFrameInfo"],
     [at |-> "locale.rs:24", native |-> "FlutterLocale", size_of |-> "FlutterLocale"],
     [at |-> "pointer.rs:161", native |-> "FlutterPointerEvent", size_of |-> "FlutterPointerEvent"],
     [at |-> "renderer/metal.rs:14", native |-> "FlutterMetalBackingStore", size_of |-> "FlutterMetalBackingStore"],
     [at |-> "renderer/metal.rs:67", native |-> "FlutterMetalTexture", size_of |-> "FlutterMetalTexture"],
     [at |-> "renderer/metal.rs:125", native |-> "FlutterMetalExternalTexture", size_of |-> "FlutterMetalExternalTexture"],
     [at |-> "renderer/metal.rs:245", native |-> "FlutterMetalRendererConfig", size_of |-> "FlutterMetalRendererConfig"],
     [at |-> "renderer/mod.rs:38", native |-> "FlutterBackingStoreConfig", size_of |-> "FlutterBackingStoreConfig"],
     [at |-> "renderer/mod.rs:89", native |-> "FlutterBackingStore", size_of |-> "FlutterBackingStore"],
     [at |-> "renderer/opengl.rs:410", native |-> "FlutterDamage", size_of |-> "FlutterDamage"],
     [at |-> "renderer/opengl.rs:436", native |-> "FlutterOpenGLRendererConfig", size_of |-> "FlutterOpenGLRendererConfig"],
     [at |-> "renderer/software.rs:82", native |-> "FlutterSoftwareBackingStore2", size_of |-> "FlutterSoftwareBackingStore2"],
     [at |-> "renderer/software.rs:163", native |-> "FlutterSoftwareRendererConfig", size_of |-> "FlutterSoftwareRendererConfig"],
     [at |-> "renderer/vulkan.rs:17", native |-> "FlutterVulkanImage", size_of |-> "FlutterVulkanImage"],
     [at |-> "renderer/vulkan.rs:58", native |-> "FlutterVulkanBackingStore", size_of |-> "FlutterVulkanBackingStore"],
     [at |-> "renderer/vulkan.rs:261", native |-> "FlutterVulkanRendererConfig", size_of |-> "FlutterVulkanRendererConfig"],
     [at |-> "task_runners.rs:113", native |-> "FlutterTaskRunnerDescription", size_of |-> "FlutterTaskRunnerDescription"],
     [at |-> "task_runners.rs:198", native |-> "FlutterCustomTaskRunners", size_of |-> "FlutterCustomTaskRunners"]}

\* Every comparison of a decoded struct's struct_size with a size_of: impl
\* Drop for FlutterMetalBackingStore and MetalBackingStore::from_raw.
SizeChecks ==
    {[at |-> "sys.rs:89", native |-> "FlutterMetalBackingStore",
      size_of |-> "FlutterMetalBackingStore"],
     [at |-> "renderer/metal.rs:28", native |-> "FlutterMetalBackingStore",
      size_of |-> "MetalBackingStore"]}

\* The struct a site builds, every other field holding `value`.
BuiltStruct(site, value) ==
    [f \in NativeLayouts[site.native] |->
        IF f = "struct_size" THEN native_size_of(site.size_of) ELSE value]

\* A struct is built for a native call.
BuildStruct(site, value) ==
    /\ conv' = [op |-> "build", at |-> site.at, native |-> site.native,
                struct |-> BuiltStruct(site, value)]
    /\ UNCHANGED <<lifecycleVars, callbackVars, protocolVars, aborted,
                   stores, damage, aot, tasks, dart, auxVars>>

\* A size check runs on a struct of its native type that this layer built.
CheckStructSize(check, site, value) ==
    /\ site.native = check.native
    /\ LET raw == BuiltStruct(site, value)
       IN conv' = [op |-> "size_check", at |-> check.at, native |-> check.native,
                   expected |-> native_size_of(check.size_of),
                   accepted |-> raw.struct_size = native_size_of(check.size_of)]
    /\ UNCHANGED <<lifecycleVars, callbackVars, protocolVars, aborted,
                   stores, damage, aot, tasks, dart, auxVars>>

\* ======================================= post_callback_on_all_native_threads
\* Engine::post_callback_on_all_native_threads: box the callback, make the
\* native call, reclaim the box on failure; on success the engine is to
\* invoke thread_callback on each of its native threads.
PostCallbackOnAllNativeThreads(p, code) ==
    /\ EngineOwned
    /\ onThreads[p].state = "none"
    /\ \A j \in 1..(p - 1) : onThreads[j].state # "none"
    /\ LET result == to_result(code)
       IN onThreads' = [onThreads EXCEPT ![p] =
             [NoAllThreads EXCEPT
                 !.state = IF is_err(result) THEN "rejected" ELSE "posted",
                 !.result = result,
                 !.box = BoxAfterStart(result),
                 !.pending = IF is_err(result) THEN {} ELSE EngineThreads]]
    /\ UNCHANGED <<lifecycleVars, callbackVars, protocolVars, aborted, extVars,
                   renderer, threads>>

\* unsafe extern "C" fn thread_callback: `&*user_data`, the Fn is called with
\* the kind of the thread; the box is left where it is.
ThreadCallback(p, t) ==
    /\ EngineMayCallBack
    /\ onThreads[p].state = "posted"
    /\ t \in onThreads[p].pending
    /\ onThreads' = [onThreads EXCEPT ![p] =
          [@ EXCEPT !.pending = @ \ {t},
                    !.invoked = @ \cup {t},
                    !.invokedAfterFree =
                        IF onThreads[p].box = "live" THEN @ ELSE @ + 1]]
    /\ UNCHANGED <<lifecycleVars, callbackVars, protocolVars, aborted, extVars,
                   renderer, threads>>

\* ===================================================================== claims
IsPrefix(s, t) == Len(s) <= Len(t) /\ SubSeq(t, 1, Len(s)) = s

Finished(r) == r.state \in {"sent", "dropped"}

\* C3 (as stated): every native response handle wrapped by a
\* PlatformMessageResponse is released to the engine exactly once, by send or,
\* if the wrapper is dropped without send, by the drop path.
C3_ReleasedExactlyOnce ==
    \A i \in 1..MaxIncoming :
        Finished(responses[i]) => responses[i].handedBack = 1

\* C3 (amended): the handle is handed back to the engine at most once, and
\* only by send; a wrapper dropped without send logs the leak warning once and
\* its handle is never handed back.
C3_ReleasedBySendOnly ==
    \A i \in 1..MaxIncoming :
        /\ responses[i].state = "sent" => responses[i].handedBack = 1
        /\ responses[i].state = "dropped" =>
              responses[i].handedBack = 0 /\ responses[i].leakLogs = 1
        /\ ~Finished(responses[i]) =>
              responses[i].handedBack = 0 /\ responses[i].leakLogs = 0

C3_Witness ==
    \E i, j \in 1..MaxIncoming :
        responses[i].state = "sent" /\ responses[j].state = "dropped"

\* C4: SendPlatformMessageResponse is called at most once for a wrapper, and
\* once send has been called, whatever it returned, the wrapper is consumed
\* and the leak-on-drop diagnostic is not emitted for it.
C4_SendConsumes ==
    \A i \in 1..MaxIncoming :
        /\ responses[i].sends <= 1
        /\ responses[i].sends = 1 =>
              /\ responses[i].state = "sent"
              /\ responses[i].leakLogs = 0
              /\ responses[i].result # "none"
        /\ responses[i].state = "sent" => responses[i].sends = 1

C4_Witness ==
    \E i, j \in 1..MaxIncoming :
        /\ responses[i].sends = 1 /\ responses[i].result = "Ok"
        /\ responses[j].sends = 1 /\ is_err(responses[j].result)

\* C5: when the native Run call fails, the aggregate and the states prepared
\* for the attempt have been reclaimed exactly once when Engine::run returns
\* its error.
C5_RunFailureReclaims ==
    phase = "RunFailed" =>
        \A b \in BoxNames : boxes[b] \in {"none", "freed"}

\* C6: the teardown events of a dropped engine occur in the order Shutdown
\* returned, compositor state reclaimed, task-runner state reclaimed, handler
\* dropped, each exactly once, and every box of the engine is reclaimed once.
TeardownExpected ==
    <<"Shutdown">>
    \o (IF userData.compositor THEN <<"compositor">> ELSE <<>>)
    \o (IF userData.custom_task_runners THEN <<"task_runners">> ELSE <<>>)
    \o <<"handler">>

C6_TeardownOrder ==
    /\ IsPrefix(teardown, TeardownExpected)
    /\ \A b \in BoxNames : boxes[b] # "corrupt"
    /\ LifecycleState = "Terminated" =>
          /\ teardown = TeardownExpected
          /\ \A b \in BoxNames : boxes[b] \in {"none", "freed"}

C6_Witness ==
    /\ LifecycleState = "Terminated"
    /\ teardown = <<"Shutdown", "compositor", "task_runners", "handler">>
    /\ boxes["platformUserData"] = "freed"
    /\ boxes["renderUserData"] = "freed"

\* C7: no callback dispatch dereferences the aggregate, the compositor state
\* or a task-runner state after its reclaim, and each of them is reclaimed
\* only after the native Shutdown call has returned.
C7_NoUseAfterReclaim ==
    /\ uaf = {}
    /\ \A b \in BoxNames : boxes[b] \in {"freed", "corrupt"} => shutdown = "returned"

C7_Witness ==
    /\ lastRead = "compositorUserData"
    /\ boxes["compositorUserData"] = "freed"
    /\ boxes["aggregate"] = "freed"

\* C8: every embedder-initiated native call for an engine, the send of a
\* PlatformMessageResponse that was moved elsewhere included, happens before
\* the native Shutdown call of that engine.
C8_NoCallAfterShutdown ==
    \A c \in nativeCalls : c.state = "Running"

\* C1: for add_view, remove_view, send_key_event and set_next_frame_callback
\* the continuation is invoked exactly once when the start call returned Ok
\* and the engine has made its native callback, and never when the start call
\* returned an error (nor before the engine calls back).
C1_ContinuationExactlyOnce ==
    \A r \in 1..MaxReqs :
        /\ is_err(reqs[r].result) => reqs[r].state = "rejected" /\ reqs[r].invoked = 0
        /\ reqs[r].state = "pending" => reqs[r].result = "Ok" /\ reqs[r].invoked = 0
        /\ reqs[r].state = "delivered" => reqs[r].result = "Ok" /\ reqs[r].invoked = 1

C1_Witness ==
    \E r, q \in 1..MaxReqs :
        /\ reqs[r].state = "delivered" /\ reqs[r].kind = "send_key_event"
        /\ reqs[q].state = "rejected" /\ reqs[q].kind = "set_next_frame_callback"
        /\ LifecycleState = "Terminated"

\* C2: when send_platform_message returned Ok and the engine has delivered the
\* reply, the continuation has been invoked exactly once with that reply and
\* the response handle created for the exchange has been released.
C2_ReplyDeliveredAndReleased ==
    \A m \in 1..MaxOutgoing :
        messages[m].state = "replied" =>
            /\ messages[m].invoked = 1
            /\ messages[m].received = messages[m].reply
            /\ messages[m].releaseCalls = <<messages[m].handle>>

\* C9: when PlatformMessageCreateResponseHandle fails, send_platform_message
\* returns that error, the boxed continuation state is reclaimed exactly once
\* and the continuation is never invoked.
C9_CreateFailureReturnsError ==
    \A m \in 1..MaxOutgoing :
        is_err(messages[m].createResult) =>
            /\ messages[m].result = messages[m].createResult
            /\ messages[m].box = "freed"
            /\ messages[m].invoked = 0

\* C10: add_view and remove_view on the implicit view return
\* Err(InvalidArguments) synchronously, the continuation is never invoked and
\* its boxed state is dropped before the call returns.
C10_ImplicitViewRejected ==
    \A r \in 1..MaxReqs :
        (reqs[r].kind \in ViewKinds /\ reqs[r].view = "implicit") =>
            /\ reqs[r].state = "rejected"
            /\ reqs[r].result = "InvalidArguments"
            /\ reqs[r].invoked = 0
            /\ reqs[r].box = "freed"

C10_Witness ==
    \E r, q \in 1..MaxReqs :
        /\ reqs[r].kind = "add_view" /\ reqs[r].view = "implicit"
        /\ reqs[q].kind = "remove_view" /\ reqs[q].view = "implicit"
        /\ LifecycleState = "Terminated"

\* C11: for every backing store this layer can build (OpenGL texture, OpenGL
\* framebuffer, software, Metal texture, Vulkan image), encoding it into the
\* native struct and decoding that struct with BackingStore::from_raw
\* succeeds and yields the same variant with the same payload fields.
C11_RoundTrip ==
    conv.op = "round_trip" => conv.output = Returned(conv.input)

\* The kind of backing store a native struct encodes, and the destruction
\* callback the encoder installs for that kind.
KindOf(raw) ==
    CASE raw.type_ = "OpenGL" ->
            (IF raw.union.type_ = "Texture" THEN "OpenGLTexture" ELSE "OpenGLFramebuffer")
      [] raw.type_ = "Software2" -> "Software"
      [] OTHER -> raw.type_
InstalledCallback(kind) == CallbackOf(BackingStore_into(SampleStore(kind, 1)))

\* C12: decoding a native backing store, or the payload struct itself, whose
\* destruction callback is not the function the encoder of that variant
\* installs (null and another variant's callback included) panics and never
\* returns a decoded value.
C12_ForeignCallbackPanics ==
    (/\ conv.op \in {"from_raw", "payload_from_raw"}
     /\ CallbackOf(conv.input) # InstalledCallback(KindOf(conv.input)))
    => conv.output.panic

C12_Witness ==
    /\ conv.op = "payload_from_raw"
    /\ KindOf(conv.input) = "Vulkan"
    /\ CallbackOf(conv.input) = "destroy_software_callback"
    /\ conv.output.panic

\* C13: for a backing store produced by create_backing_store, across the
\* engine's decodes (collect_backing_store, present_view) and its final
\* discard, the destruction callback installed at encode time runs exactly
\* once: not by the out-slot write, not by a decode, and what the encoder
\* allocated is freed exactly once.
C13_DestroyedOnce ==
    \A s \in 1..MaxStores :
        /\ stores[s].destroyed <= 1
        /\ stores[s].resource # "corrupt"
        /\ stores[s].state = "engine" =>
              /\ stores[s].destroyed = 0
              /\ stores[s].resource = ResourceOf([kind |-> KindOf(stores[s].raw)])
        /\ stores[s].state = "discarded" =>
              /\ stores[s].destroyed = 1
              /\ stores[s].resource \in {"none", "freed"}

C13_Witness ==
    \E s \in 1..MaxStores :
        /\ stores[s].state = "discarded"
        /\ stores[s].presented /\ stores[s].collected
        /\ KindOf(stores[s].raw) = "Vulkan"
        /\ stores[s].resource = "freed"

\* C14: a damage buffer registered for framebuffer identity F by
\* populate_existing_damage is freed exactly once, at the next present
\* callback for F; a present for another identity does not free it, and
\* without a present for F it is never freed (and never freed twice).
C14_FreedAtNextPresent ==
    \A b \in 1..MaxBuffers :
        LET buf == damage.bufs[b]
        IN /\ buf.state # "corrupt"
           /\ (buf.state # "none" /\ buf.presented) => buf.state = "freed"
           /\ (buf.state # "none" /\ ~buf.presented) => buf.state = "live"

\* C15: when an engine is started with AOT data and the VM persists across
\* engine shutdown (shutdown_dart_vm_when_done = false), CollectAOTData is
\* never invoked for that data, however many engines and embedder references
\* are dropped.
C15_PersistentVmNeverCollects ==
    (\E e \in 1..MaxEngines :
        /\ aot.engines[e].state = "Running"
        /\ ~aot.engines[e].shutdown_dart_vm_when_done)
    => aot.collected = 0

\* C16: with engines sharing one AOT data object and the embedder dropping
\* its references at any time, CollectAOTData is never invoked before the
\* native Shutdown call has returned for every engine started with the data
\* (and it is invoked at most once).
C16_CollectAfterShutdown ==
    /\ aot.collected <= 1
    /\ aot.collected > 0 =>
          \A e \in 1..MaxEngines :
              aot.engines[e].state = "Running" =>
                  StepDone(aot.engines[e], "ShutdownReturn")

C16_Witness ==
    /\ aot.collected = 1
    /\ \A e \in 1..MaxEngines :
          /\ aot.engines[e].state = "Running"
          /\ aot.engines[e].dropIdx = Len(DropSteps)

\* C17: every (runner, task) pair run_task passes to the native RunTask is a
\* pair the engine supplied in an earlier post_task callback, and each posted
\* pair is passed to RunTask at most once.
C17_RunsOnlyPostedOnce ==
    /\ \A i \in 1..Len(tasks.ran) : tasks.ran[i] \in tasks.posted
    /\ \A i, j \in 1..Len(tasks.ran) : tasks.ran[i] = tasks.ran[j] => i = j

C17_Witness ==
    /\ Len(tasks.ran) = 2
    /\ tasks.ran[1].runner # tasks.ran[2].runner
    /\ tasks.held = {}

\* C18: for post_dart_object with a SharedBuffer the embedder's collect
\* callback is invoked exactly once, only after the engine has signalled that
\* it is done with the buffer, and the boxed callback state is reclaimed
\* exactly once, also when the native post call returns an error; a copied
\* Buffer registers no release callback.
C18_SharedBufferCollectedOnce ==
    \A p \in 1..MaxPosts :
        /\ dart[p].kind = "Buffer" =>
              dart[p].callback = "None" /\ dart[p].box = "none" /\ dart[p].collects = 0
        /\ dart[p].kind = "SharedBuffer" =>
              /\ dart[p].box # "corrupt"
              /\ dart[p].state = "posted" => dart[p].collects = 0 /\ dart[p].box = "live"
              /\ dart[p].state = "collected" => dart[p].collects = 1 /\ dart[p].box = "freed"
              /\ dart[p].state = "failed" => dart[p].collects = 0 /\ dart[p].box = "freed"

\* The mapping C19 states: Success to Ok, the three failures to the Err of
\* the same name, anything else a panic.
ExpectedResult(code) ==
    CASE code = "Success" -> "Ok"
      [] code \in {"InvalidLibraryVersion", "InvalidArguments", "InternalInconsistency"} -> code
      [] OTHER -> "Panic"

\* C19: to_result maps Success to Ok(()), InvalidLibraryVersion,
\* InvalidArguments and InternalInconsistency to the Err of the same name and
\* panics on any other code; every public operation (here Engine::run and
\* send_platform_message) returns the mapped result of its native call, the
\* failing one when one fails.
C19_ResultsAreMappedStatuses ==
    /\ conv.op = "to_result" => conv.output = ExpectedResult(conv.input)
    /\ phase # "NotStarted" =>
          /\ runResult \in {"Ok"} \cup Error
          /\ (runResult = "Ok") = (phase = "Running")
    /\ \A m \in 1..MaxOutgoing :
          messages[m].state # "none" =>
              /\ messages[m].result \in {"Ok"} \cup Error
              /\ is_err(messages[m].createResult) =>
                    messages[m].result = messages[m].createResult

\* C20: for the enums defined with simple_enum! and the bitfields defined
\* with bitfield!, a supported value converted to its native encoding and
\* back is the original value, and an out-of-range native value converted
\* back is a recoverable failure carrying the value: no panic, no instance.
C20_EnumBitfieldRoundTrip ==
    /\ conv.op = "enum_round_trip" => conv.output = OkOf(conv.input)
    /\ conv.op = "bitfield_round_trip" => conv.output = conv.input
    /\ (conv.op \in {"enum_try_from", "bitfield_from"} /\ ~conv.known) =>
          conv.output = ErrOf(conv.input)
    /\ (conv.op = "software_from_raw" /\ ~conv.known) => ~conv.output.panic

\* C21: for an engine started through Engine::run with backend B, the renderer
\* user-data variant in the aggregate is B for the engine's whole lifetime and
\* the native renderer config has type B with only B's callbacks installed;
\* a renderer callback of backend B is only ever dispatched against user data
\* of variant B, and a dispatch that finds another variant panics instead of
\* calling a handler.
C21_RendererVariantMatches ==
    /\ phase = "Running" =>
          /\ renderer.user_data = renderer.backend
          /\ renderer.config.type_ = renderer.backend
          /\ renderer.config.callbacks = RendererCallbacks[renderer.backend]
    /\ renderer.dispatch # NoDispatch =>
          /\ renderer.dispatch.callback \in RendererCallbacks[renderer.backend]
          /\ renderer.dispatch.found = renderer.backend
          /\ renderer.dispatch.outcome =
                Returned([handler |-> renderer.backend,
                          method |-> renderer.dispatch.callback])
    /\ conv.op = "renderer_callback" =>
          IF conv.callback \in RendererCallbacks[conv.variant]
          THEN conv.output = Returned([handler |-> conv.variant, method |-> conv.callback])
          ELSE conv.output = Panicked

C21_Witness ==
    /\ LifecycleState = "Terminated"
    /\ renderer.backend = "OpenGL"
    /\ renderer.dispatch.callback = "present_with_info"
    /\ conv.op = "renderer_callback"
    /\ conv.callback = "make_current"
    /\ conv.variant = "Software"
    /\ conv.output = Panicked

\* C22: with two or more engine-managed threads dispatching callbacks in
\* parallel, no two callback dispatches hold mutable access to the same
\* user-data aggregate (or the same compositor state) at the same time.
C22_ExclusiveDispatch ==
    \A t, u \in EngineThreads :
        (t # u /\ threads[t] # Idle /\ threads[u] # Idle) =>
            threads[t].target # threads[u].target

\* C23: in the present path an engine-owned array of length zero (the layer
\* array of present_view, a platform view's mutation list, the rectangle
\* arrays of a paint region and of the OpenGL present damage) is treated as an
\* empty sequence without reading through its pointer, whatever the pointer
\* (null included); for a non-zero length the handler receives exactly that
\* many elements in the engine's order.
C23_ZeroLengthIsEmpty ==
    conv.op = "array" =>
        IF conv.input.len = 0
        THEN conv.output = Returned(<<>>)
        ELSE conv.output = Returned(conv.input.elems)

\* C24: every size-prefixed native struct this layer builds for a native call
\* has its struct_size field set to the size of that struct's own native type
\* (FlutterRemoveViewInfo built by remove_view carries the size of
\* FlutterRemoveViewInfo), and every size check on a decoded native struct
\* compares against the size of that same native type.
C24_StructSizeIsOwnSize ==
    /\ conv.op = "build" => conv.struct.struct_size = native_size_of(conv.native)
    /\ conv.op = "size_check" => conv.expected = native_size_of(conv.native)

\* C25: every call this layer makes to PlatformMessageReleaseResponseHandle
\* passes a handle that an earlier successful
\* PlatformMessageCreateResponseHandle returned and that has not been released
\* yet (never null, never stale), so the release never fails and its
\* expectation never panics, on the success path and on the
\* handle-creation-failure path alike.
C25_ReleasePassesLiveHandle ==
    /\ ~aborted
    /\ \A m \in 1..MaxOutgoing :
          /\ messages[m].result # "Panic"
          /\ Len(messages[m].releaseCalls) <= 1
          /\ \A k \in DOMAIN messages[m].releaseCalls :
                /\ messages[m].createResult = "Ok"
                /\ messages[m].releaseCalls[k] # NULL
                /\ messages[m].releaseCalls[k] = messages[m].handle

\* C26: after Engine::run returned Ok, the engine handle stored in the
\* user-data aggregate equals the handle the native Run call produced, so every
\* PlatformMessageResponse built by the platform_message callback carries the
\* non-null handle of the engine that delivered the message and send addresses
\* that engine.
C26_AggregateHoldsEngineHandle ==
    phase = "Running" =>
        /\ userData.engine = inner.engine
        /\ \A i \in 1..MaxIncoming :
              responses[i].state # "none" =>
                  responses[i].engine # NULL /\ responses[i].engine = inner.engine
        /\ \A c \in nativeCalls :
              c.fn = "SendPlatformMessageResponse" => c.engine = inner.engine

\* C27: if PlatformMessageCreateResponseHandle succeeds but the following
\* SendPlatformMessage call fails, send_platform_message returns that error,
\* the continuation is never invoked, the boxed continuation state is reclaimed
\* exactly once and the response handle that was created is released exactly
\* once.
C27_SendFailureReclaims ==
    \A m \in 1..MaxOutgoing :
        messages[m].state = "sendFailed" =>
            /\ is_err(messages[m].result)
            /\ messages[m].invoked = 0
            /\ messages[m].box = "freed"
            /\ messages[m].releaseCalls = <<messages[m].handle>>

\* C28: after any sequence of populate_existing_damage and present callbacks
\* on one engine (two populate calls for the same framebuffer identity with no
\* present between them included), every damage buffer that has been
\* allocated and not yet freed is the one recorded in existing_damage_map under
\* its framebuffer identity: at most one live buffer per identity and no
\* buffer is orphaned.
C28_LiveBuffersAreMapped ==
    \A b \in 1..MaxBuffers :
        damage.bufs[b].state = "live" => damage.map[damage.bufs[b].fbo] = b

\* C29: for add_view, remove_view, send_key_event, set_next_frame_callback and
\* post_render_thread_task the boxed continuation state is reclaimed exactly
\* once on every path: by the error branch when the start call fails, or by
\* the native callback when it succeeded, never by both and never by neither;
\* and the C string allocated for a key event's character is reclaimed exactly
\* once before send_key_event returns, whatever the result.
C29_ContinuationBoxReclaimedOnce ==
    \A r \in 1..MaxReqs :
        /\ reqs[r].box # "corrupt"
        /\ reqs[r].state = "rejected" => is_err(reqs[r].result) /\ reqs[r].box = "freed"
        /\ reqs[r].state = "pending" => reqs[r].result = "Ok" /\ reqs[r].box = "live"
        /\ reqs[r].state = "delivered" => reqs[r].result = "Ok" /\ reqs[r].box = "freed"
        /\ reqs[r].character \in {"none", "freed"}
        /\ reqs[r].character = "freed" => reqs[r].kind = "send_key_event"

C29_Witness ==
    \E r, q \in 1..MaxReqs :
        /\ reqs[r].kind = "send_key_event" /\ reqs[r].state = "rejected"
        /\ reqs[r].character = "freed"
        /\ reqs[q].kind = "post_render_thread_task" /\ reqs[q].state = "delivered"
        /\ reqs[q].box = "freed"

\* C30: for post_callback_on_all_native_threads the boxed callback state
\* stays allocated during every invocation the engine makes of the thread
\* callback and is reclaimed exactly once overall: immediately when the native
\* call fails, and after the engine has invoked the callback on all native
\* threads when it succeeds.
C30_AllThreadsBoxReclaimedOnce ==
    \A p \in 1..MaxAllThreads :
        /\ onThreads[p].box # "corrupt"
        /\ onThreads[p].invokedAfterFree = 0
        /\ onThreads[p].state = "rejected" =>
              onThreads[p].box = "freed" /\ onThreads[p].invoked = {}
        /\ (onThreads[p].state = "posted" /\ onThreads[p].pending # {}) =>
              onThreads[p].box = "live"
        /\ (onThreads[p].state = "posted" /\ onThreads[p].pending = {}) =>
              onThreads[p].box = "freed"

\* ------------------------------------------------------------ specifications
DropEngine ==
    \/ DropShutdownCall
    \/ DropShutdownReturn
    \/ DropCompositor
    \/ DropTaskRunners
    \/ DropFields

Next ==
    \/ \E cfg \in Configs, code \in EngineResult : Run(cfg, code)
    \/ DropEngine
    \/ CallbackVsync
    \/ CallbackCompositor
    \/ \E runner \in {"platform", "render"} : CallbackPostTask(runner)
    \/ \E i \in 1..MaxIncoming : CallbackPlatformMessage(i)
    \/ \E i \in 1..MaxIncoming, code \in EngineResult : ResponseSend(i, code)
    \/ \E i \in 1..MaxIncoming : ResponseDrop(i)
    \/ OnVsync

Spec == Init /\ [][Next]_vars

NextMsg ==
    \/ \E code \in EngineResult : Run(FullConfig, code)
    \/ DropEngine
    \/ \E m \in 1..MaxOutgoing, createCode, sendCode, relCode \in EngineResult :
          SendPlatformMessage(m, createCode, sendCode, relCode)
    \/ \E m \in 1..MaxOutgoing, data \in Replies, relCode \in EngineResult :
          MessageResponse(m, data, relCode)

SpecMsg == Init /\ [][NextMsg]_vars

NextAsync ==
    \/ \E code \in EngineResult : Run(FullConfig, code)
    \/ DropEngine
    \/ \E r \in 1..MaxReqs, kind \in RequestKinds, view \in ViewIds \cup {"none"},
          hasCharacter \in BOOLEAN, code \in EngineResult :
          StartRequest(r, kind, view, hasCharacter, code)
    \/ \E r \in 1..MaxReqs, value \in {"true", "false", "unit"} : NativeCallback(r, value)

SpecAsync == Init /\ [][NextAsync]_vars

\* The conversions are pure: their specification applies them to inputs drawn
\* from the sample sets.
NextConv ==
    \/ \E bs \in BackingStores : RoundTrip(bs)
    \/ \E raw \in RawStores : Decode(raw)
    \/ \E raw \in RawStores : DecodePayload(raw)
    \/ \E enum \in DOMAIN SimpleEnums :
          \E i \in DOMAIN SimpleEnums[enum] : EnumRoundTrip(enum, SimpleEnums[enum][i])
    \/ \E enum \in DOMAIN SimpleEnums :
          \E value \in NativeEnumValues(enum) : EnumTryFrom(enum, value)
    \/ \E bits \in KnownBits : BitfieldRoundTrip(bits)
    \/ \E bits \in NativeBits : BitfieldFrom(bits)
    \/ \E value \in NativeEnumValues("SoftwarePixelFormat") : DecodePixelFormat(value)

SpecConv == Init /\ [][NextConv]_vars

\* The compositor's backing stores, for an engine started with a compositor.
NextStore ==
    \/ \E code \in EngineResult : Run(FullConfig, code)
    \/ DropEngine
    \/ \E s \in 1..MaxStores, some \in BOOLEAN, kind \in BackingStoreKinds :
          CreateBackingStore(s, some, SampleStore(kind, 1))
    \/ \E s \in 1..MaxStores : CollectBackingStore(s)
    \/ \E layers \in SUBSET (1..MaxStores) : PresentView(layers)
    \/ \E s \in 1..MaxStores : EngineDiscard(s)

SpecStore == Init /\ [][NextStore]_vars

\* The damage buffers of the OpenGL renderer.
NextDamage ==
    \/ \E code \in EngineResult : Run(FullConfig, code)
    \/ DropEngine
    \/ \E f \in 1..MaxFbos, b \in 1..MaxBuffers : PopulateExistingDamage(f, b)
    \/ \E f \in 1..MaxFbos : PresentWithInfo(f)

SpecDamage == Init /\ [][NextDamage]_vars

\* One AOT data object shared by the embedder and the engines started with it.
NextAot ==
    \/ \E code \in EngineResult : AotNew(code)
    \/ EmbedderClone
    \/ EmbedderDrop
    \/ \E e \in 1..MaxEngines, flag \in BOOLEAN, code \in EngineResult : AotRun(e, flag, code)
    \/ \E e \in 1..MaxEngines : AotEngineDrop(e)

SpecAot == Init /\ [][NextAot]_vars

\* The tasks of the custom task runners.
TaskValues == {Task_from(FlutterTask(runner, t)) :
                  runner \in {"platform", "render"}, t \in 1..MaxTasks}

NextTask ==
    \/ \E code \in EngineResult : Run(FullConfig, code)
    \/ DropEngine
    \/ \E runner \in {"platform", "render"}, t \in 1..MaxTasks : PostTask(runner, t)
    \/ \E task \in TaskValues, code \in EngineResult : RunTask(task, code)
    \/ \E task \in TaskValues : DropTask(task)

SpecTask == Init /\ [][NextTask]_vars

\* Dart objects posted to a send port.
NextDart ==
    \/ \E code \in EngineResult : Run(FullConfig, code)
    \/ DropEngine
    \/ \E p \in 1..MaxPosts, kind \in {"Buffer", "SharedBuffer"}, code \in EngineResult :
          PostDartObject(p, kind, code)
    \/ \E p \in 1..MaxPosts : BufferCollect(p)

SpecDart == Init /\ [][NextDart]_vars

\* The results the public operations return.
NextResult ==
    \/ \E code \in NativeCodes : ApplyToResult(code)
    \/ \E code \in EngineResult : Run(FullConfig, code)
    \/ DropEngine
    \/ \E m \in 1..MaxOutgoing, createCode, sendCode, relCode \in EngineResult :
          SendPlatformMessage(m, createCode, sendCode, relCode)
    \/ \E m \in 1..MaxOutgoing, data \in Replies, relCode \in EngineResult :
          MessageResponse(m, data, relCode)

SpecResult == Init /\ [][NextResult]_vars

\* The renderer of an engine and the callbacks of its backend.
NextRenderer ==
    \/ \E config \in RendererBackends, code \in EngineResult : RunRenderer(config, code)
    \/ DropEngine
    \/ \E callback \in AllRendererCallbacks : RendererCallback(callback)
    \/ \E callback \in AllRendererCallbacks, variant \in RendererBackends :
          ApplyRendererCallback(callback, variant)

SpecRenderer == Init /\ [][NextRenderer]_vars

\* The callbacks the threads of the engine make in parallel.
NextThreads ==
    \/ \E config \in RendererBackends, code \in EngineResult : RunRenderer(config, code)
    \/ DropEngine
    \/ \E t \in EngineThreads : \E callback \in ThreadCallbacks[t] : CallbackEnter(t, callback)
    \/ \E t \in EngineThreads : CallbackReturn(t)

SpecThreads == Init /\ [][NextThreads]_vars

\* The arrays the engine passes to the present callbacks.
NextArray ==
    \E site \in ArraySites, a \in EngineArrays : DecodeArray(site, a)

SpecArray == Init /\ [][NextArray]_vars

\* The size-prefixed structs: each literal builds, each check decodes.
NextSize ==
    \/ \E site \in StructSites, value \in 0..MaxLen : BuildStruct(site, value)
    \/ \E check \in SizeChecks, site \in StructSites, value \in 0..MaxLen :
          CheckStructSize(check, site, value)

SpecSize == Init /\ [][NextSize]_vars

\* The asynchronous requests, post_render_thread_task included.
ContinuationKinds == RequestKinds \cup {"post_render_thread_task"}

NextContinuation ==
    \/ \E code \in EngineResult : Run(FullConfig, code)
    \/ DropEngine
    \/ \E r \in 1..MaxReqs, kind \in ContinuationKinds, view \in ViewIds \cup {"none"},
          hasCharacter \in BOOLEAN, code \in EngineResult :
          StartRequest(r, kind, view, hasCharacter, code)
    \/ \E r \in 1..MaxReqs, value \in {"true", "false", "unit"} : NativeCallback(r, value)

SpecContinuation == Init /\ [][NextContinuation]_vars

\* Callbacks posted to all native threads of the engine.
NextAllThreads ==
    \/ \E code \in EngineResult : Run(FullConfig, code)
    \/ DropEngine
    \/ \E p \in 1..MaxAllThreads, code \in EngineResult :
          PostCallbackOnAllNativeThreads(p, code)
    \/ \E p \in 1..MaxAllThreads, t \in EngineThreads : ThreadCallback(p, t)

SpecAllThreads == Init /\ [][NextAllThreads]_vars
====
